---- MODULE Spec2Model ----
(***************************************************************************)
(* Model of gen/pgo.cpp (LDC): the structural hash PGOHash, the mapping    *)
(* pass MapRegionCounters, the profile loader loadRegionCounts, the        *)
(* counting pass ComputeRegionCounts and the branch-weight synthesis       *)
(* createProfileWeights*.                                                  *)
(*                                                                         *)
(* uint64_t values are kept at their full width: a value is four 16-bit    *)
(* limbs, least significant first, and every operation is the unsigned     *)
(* 64-bit operation of the C++ code (wrapping modulo 2^64).                *)
(***************************************************************************)
EXTENDS Integers, Sequences, FiniteSets, TLC

(***************************************************************************)
(* uint64_t arithmetic                                                     *)
(***************************************************************************)
Limb == 2^16

\* The uint64_t with the value n, for 0 <= n < 2^31.
ToU64(n) == <<n % Limb, (n \div Limb) % Limb, 0, 0>>

Zero64 == ToU64(0)

One64 == ToU64(1)

\* 2^32 - 1
UINT32_MAX == <<Limb - 1, Limb - 1, 0, 0>>

\* 2^64 - 1
UINT64_MAX == <<Limb - 1, Limb - 1, Limb - 1, Limb - 1>>

\* a + b as uint64_t (the carry out of the top limb is dropped)
Add64(a, b) ==
  LET s1 == a[1] + b[1]
      s2 == a[2] + b[2] + (s1 \div Limb)
      s3 == a[3] + b[3] + (s2 \div Limb)
      s4 == a[4] + b[4] + (s3 \div Limb)
  IN  <<s1 % Limb, s2 % Limb, s3 % Limb, s4 % Limb>>

\* a - b as uint64_t (wraps modulo 2^64 when b > a)
Sub64(a, b) ==
  LET d1 == a[1] - b[1]
      d2 == a[2] - b[2] - (IF d1 < 0 THEN 1 ELSE 0)
      d3 == a[3] - b[3] - (IF d2 < 0 THEN 1 ELSE 0)
      d4 == a[4] - b[4] - (IF d3 < 0 THEN 1 ELSE 0)
  IN  <<d1 % Limb, d2 % Limb, d3 % Limb, d4 % Limb>>

\* a < b
Less64(a, b) ==
  \/ a[4] < b[4]
  \/ a[4] = b[4] /\ a[3] < b[3]
  \/ a[4] = b[4] /\ a[3] = b[3] /\ a[2] < b[2]
  \/ a[4] = b[4] /\ a[3] = b[3] /\ a[2] = b[2] /\ a[1] < b[1]

Leq64(a, b) == ~Less64(b, a)

\* std::max
Max64(a, b) == IF Less64(a, b) THEN b ELSE a

\* bit i (0 = least significant) of a
Bit64(a, i) == (a[(i \div 16) + 1] \div (2^(i % 16))) % 2

\* a with bit i set (bit i of a is 0)
SetBit64(a, i) == [a EXCEPT ![(i \div 16) + 1] = @ + 2^(i % 16)]

\* a << k as uint64_t, for 0 <= k <= 14
Shl64(a, k) ==
  LET t1 == a[1] * (2^k)
      t2 == a[2] * (2^k) + (t1 \div Limb)
      t3 == a[3] * (2^k) + (t2 \div Limb)
      t4 == a[4] * (2^k) + (t3 \div Limb)
  IN  <<t1 % Limb, t2 % Limb, t3 % Limb, t4 % Limb>>

\* Bitwise or of two naturals.
RECURSIVE BitOr(_, _)
BitOr(m, n) ==
  IF m = 0 THEN n
  ELSE IF n = 0 THEN m
  ELSE (IF m % 2 = 1 \/ n % 2 = 1 THEN 1 ELSE 0) + 2 * BitOr(m \div 2, n \div 2)

\* a | t for a one-limb value t
OrLow64(a, t) == [a EXCEPT ![1] = BitOr(@, t)]

\* The number of bits of a natural (0 for 0).
RECURSIVE NatBits(_)
NatBits(n) == IF n = 0 THEN 0 ELSE 1 + NatBits(n \div 2)

\* The number of bits of a (0 for 0).
BitLength64(a) ==
  IF a[4] # 0 THEN 48 + NatBits(a[4])
  ELSE IF a[3] # 0 THEN 32 + NatBits(a[3])
  ELSE IF a[2] # 0 THEN 16 + NatBits(a[2])
  ELSE NatBits(a[1])

\* Binary long division of a by b (b # 0) over the bits hi - 1 .. lo of a,
\* given the running remainder r (r < b) left by the bits above: the
\* quotient bits of the range and the remainder after it.  One bit takes
\* 2 * r + (the bit of a), and subtracts b when it fits; a longer range is
\* its upper half followed by its lower half.
RECURSIVE DivRange64(_, _, _, _, _)
DivRange64(a, b, lo, hi, r) ==
  IF hi - lo = 1
  THEN
    LET t1 == 2 * r[1] + Bit64(a, lo)
        t2 == 2 * r[2] + (t1 \div Limb)
        t3 == 2 * r[3] + (t2 \div Limb)
        t4 == 2 * r[4] + (t3 \div Limb)
        doubled == <<t1 % Limb, t2 % Limb, t3 % Limb, t4 % Limb>>
    IN  IF t4 >= Limb \/ Leq64(b, doubled)
        THEN [q |-> SetBit64(Zero64, lo), r |-> Sub64(doubled, b)]
        ELSE [q |-> Zero64, r |-> doubled]
  ELSE
    LET mid == (lo + hi) \div 2
        upper == DivRange64(a, b, mid, hi, r)
        lower == DivRange64(a, b, lo, mid, upper.r)
    IN  [q |-> Add64(upper.q, lower.q), r |-> lower.r]

\* Unsigned division a / b (b # 0).  The bits of a above its top bit are 0
\* and leave quotient and remainder 0, so the division starts at the top bit.
Div64(a, b) ==
  IF Less64(a, b) THEN Zero64
  ELSE IF b = One64 THEN a
  ELSE DivRange64(a, b, 0, BitLength64(a), Zero64).q

\* The eight bytes of a in little-endian order.
LittleEndianBytes(a) ==
  <<a[1] % 256, a[1] \div 256, a[2] % 256, a[2] \div 256,
    a[3] % 256, a[3] \div 256, a[4] % 256, a[4] \div 256>>

(***************************************************************************)
(* PGOHash                                                                 *)
(***************************************************************************)
NumBitsPerType == 6

\* sizeof(uint64_t) * 8 / NumBitsPerType
NumTypesPerWord == (8 * 8) \div NumBitsPerType

TooBig == 2^NumBitsPerType

\* enum HashType
LabelStmt == 1
WhileStmt == 2
DoStmt == 3
ForStmt == 4
ForeachStmt == 5
ForeachRangeStmt == 6
SwitchStmt == 7
CaseStmt == 8
DefaultStmt == 9
CaseGoto == 10
IfStmt == 11
TryCatchStmt == 12
TryCatchCatch == 13
TryFinallyStmt == 14
ConditionalExpr == 15
AndAndExpr == 16
OrOrExpr == 17
LastHashType == 18

\* PGOHash(): Working(0), Count(0), and a fresh MD5 context.  The MD5
\* context is modelled by the bytes it has been fed.
NewPGOHash == [Working |-> Zero64, Count |-> 0, MD5 |-> <<>>]

\* A mutation of combine: the fold test without its "Count &&" guard.
combine_NoCountGuard(h, Type) ==
  LET folded ==
        IF h.Count % NumTypesPerWord = 0
        THEN [h EXCEPT !.MD5 = @ \o LittleEndianBytes(h.Working),
                       !.Working = Zero64]
        ELSE h
  IN  [folded EXCEPT !.Count = @ + 1,
                     !.Working = OrLow64(Shl64(@, NumBitsPerType), Type)]

\* PGOHash::combine
combine(h, Type) ==
  LET folded ==
        IF h.Count # 0 /\ h.Count % NumTypesPerWord = 0
        THEN [h EXCEPT !.MD5 = @ \o LittleEndianBytes(h.Working),
                       !.Working = Zero64]
        ELSE h
  IN  [folded EXCEPT !.Count = @ + 1,
                     !.Working = OrLow64(Shl64(@, NumBitsPerType), Type)]

\* PGOHash::finalize.  MD5.update(Working) passes a uint64_t where an
\* ArrayRef<uint8_t> is expected: the value converts to one uint8_t, so a
\* single byte, the low byte of Working, is fed.  The digest returned on
\* the MD5 path is represented by the bytes that were fed to it.
finalize(h) ==
  IF h.Count <= NumTypesPerWord
  THEN [viaMD5 |-> FALSE, word |-> h.Working, fed |-> h.MD5]
  ELSE [viaMD5 |-> TRUE, word |-> Zero64,
        fed |-> IF h.Working # Zero64
                THEN h.MD5 \o <<h.Working[1] % 256>>
                ELSE h.MD5]

\* The hash state after combining the tokens of seq, in order, into h.
RECURSIVE combineAll(_, _)
combineAll(h, seq) ==
  IF seq = <<>> THEN h ELSE combineAll(combine(h, Head(seq)), Tail(seq))

(***************************************************************************)
(* Branch weights                                                          *)
(***************************************************************************)
\* The low 32 bits of a: the conversion of a uint64_t to uint32_t.
Trunc32(a) == <<a[1], a[2], 0, 0>>

\* A mutation of calculateWeightScale: "<=" for "<".
calculateWeightScale_Leq(MaxWeight) ==
  IF Leq64(MaxWeight, UINT32_MAX)
  THEN One64
  ELSE Add64(Div64(MaxWeight, UINT32_MAX), One64)

\* calculateWeightScale
calculateWeightScale(MaxWeight) ==
  IF Less64(MaxWeight, UINT32_MAX)
  THEN One64
  ELSE Add64(Div64(MaxWeight, UINT32_MAX), One64)

\* scaleBranchWeight: the uint32_t returned, and the assertions that failed.
scaleBranchWeight(Weight, Scale) ==
  IF Scale = Zero64
  THEN [value |-> Zero64, failed |-> {"scale by 0?"}]
  ELSE
    LET Scaled == Add64(Div64(Weight, Scale), One64)
    IN  [value |-> Trunc32(Scaled),
         failed |-> IF Leq64(Scaled, UINT32_MAX) THEN {}
                    ELSE {"overflow 32-bits"}]

\* The null llvm::MDNode*: no weights.
nullptr == [isNull |-> TRUE, weights |-> <<>>, failed |-> {}]

\* MDHelper.createBranchWeights over scaled weights.
createBranchWeights(scaled) ==
  [isNull |-> FALSE,
   weights |-> [i \in DOMAIN scaled |-> scaled[i].value],
   failed |-> UNION {scaled[i].failed : i \in DOMAIN scaled}]

\* CodeGenPGO::createProfileWeights(uint64_t TrueCount, uint64_t FalseCount)
createProfileWeights(TrueCount, FalseCount) ==
  IF TrueCount = Zero64 /\ FalseCount = Zero64
  THEN nullptr
  ELSE
    LET Scale == calculateWeightScale(Max64(TrueCount, FalseCount))
    IN  createBranchWeights(<<scaleBranchWeight(TrueCount, Scale),
                              scaleBranchWeight(FalseCount, Scale)>>)

\* std::max_element over a non-empty sequence
MaxElement(Weights) ==
  CHOOSE m \in {Weights[i] : i \in DOMAIN Weights} :
    \A i \in DOMAIN Weights : Leq64(Weights[i], m)

\* A mutation of the vector form: without the "at least two elements" test.
createProfileWeightsVector_NoSizeTest(Weights) ==
  IF Weights = <<>>
  THEN nullptr
  ELSE
    LET MaxWeight == MaxElement(Weights)
    IN  IF MaxWeight = Zero64
        THEN nullptr
        ELSE
          LET Scale == calculateWeightScale(MaxWeight)
          IN  createBranchWeights(
                [i \in DOMAIN Weights |-> scaleBranchWeight(Weights[i], Scale)])

\* CodeGenPGO::createProfileWeights(llvm::ArrayRef<uint64_t> Weights)
createProfileWeightsVector(Weights) ==
  IF Len(Weights) < 2
  THEN nullptr
  ELSE
    LET MaxWeight == MaxElement(Weights)
    IN  IF MaxWeight = Zero64
        THEN nullptr
        ELSE
          LET Scale == calculateWeightScale(MaxWeight)
          IN  createBranchWeights(
                [i \in DOMAIN Weights |-> scaleBranchWeight(Weights[i], Scale)])

(***************************************************************************)
(* State                                                                   *)
(***************************************************************************)
VARIABLES
  alphabet,   \* the HashTypes a run of the hasher draws its tokens from
  Hash,       \* a PGOHash object: Working, Count, MD5
  tokens,     \* history: the HashTypes combined into Hash, in order
  hashed,     \* what finalize returned, NotFinalized before
  query,      \* the weight query being served: its form, counts and node
  result,     \* what the query returned, NoResult before
  fn,                 \* the FuncDeclaration being compiled, a tree of nodes
  genInstrProf,       \* global.params.genInstrProf
  PGOReader,          \* gIR->getPGOReader() is not null
  pc,                 \* where assignRegionCounters stands
  RegionCounterMap,   \* CodeGenPGO::RegionCounterMap
  NumRegionCounters,  \* CodeGenPGO::NumRegionCounters
  FunctionHash,       \* CodeGenPGO::FunctionHash
  RegionCounts,       \* CodeGenPGO::RegionCounts
  StmtCountMap,       \* CodeGenPGO::StmtCountMap
  EntryCount,         \* the entry count set on the llvm::Function
  lookup,             \* history: what getFunctionCounts returned
  warnings,           \* the warnings emitted, in order
  failed,             \* the assertions that failed
  walk                \* history: the trace of the counting pass

hashVars == <<alphabet, Hash, tokens, hashed>>

queryVars == <<query, result>>

pgoVars ==
  <<fn, genInstrProf, PGOReader, pc, RegionCounterMap, NumRegionCounters,
    FunctionHash, RegionCounts, StmtCountMap, EntryCount, lookup, warnings,
    failed, walk>>

vars == <<hashVars, queryVars, pgoVars>>

NotFinalized == [viaMD5 |-> FALSE, word |-> Zero64, fed |-> <<"not finalized">>]

\* The hasher is not in use.
HashIdle ==
  /\ alphabet = {}
  /\ Hash = NewPGOHash
  /\ tokens = <<>>
  /\ hashed = NotFinalized

\* A RootObject pointer: the node it points to, named by its path from the
\* root of the tree, plus the byte offset getCounterPtr added.
Ptr(path) == [node |-> path, off |-> 0]

\* The null pointer (no node has path <<0>>).
NULL == Ptr(<<0>>)

NoQuery == [form |-> "none", counts |-> <<>>, stmt |-> NULL]

NoResult == [isNull |-> TRUE, weights |-> <<>>, failed |-> {"no result"}]

\* No weight query is being served.
QueryIdle ==
  /\ query = NoQuery
  /\ result = NoResult

NoLookup == [outcome |-> "none", data |-> <<>>, before |-> <<>>]

NoWalk == [order |-> <<>>, wrote |-> <<>>, pre |-> <<>>, post |-> <<>>,
           frames |-> <<>>]

\* A CodeGenPGO object on which assignRegionCounters has not run.
NewCodeGenPGO ==
  /\ RegionCounterMap = <<>>
  /\ NumRegionCounters = 0
  /\ FunctionHash = NotFinalized
  /\ StmtCountMap = <<>>
  /\ EntryCount = <<"not set">>
  /\ lookup = NoLookup
  /\ warnings = <<>>
  /\ failed = {}
  /\ walk = NoWalk

\* No function is being compiled.
PGOIdle ==
  /\ fn = [kind |-> "Null", kids |-> <<>>, gototarget |-> FALSE, target |-> <<>>]
  /\ genInstrProf = FALSE
  /\ PGOReader = FALSE
  /\ pc = "idle"
  /\ RegionCounts = <<>>
  /\ NewCodeGenPGO

(***************************************************************************)
(* The hasher on its own: any sequence of combine calls, then finalize.    *)
(***************************************************************************)
\* Longest token sequence combined.
MaxTokens == 13

\* Pairs of HashTypes; a run combines tokens of one pair.
TokenAlphabets ==
  {{WhileStmt, IfStmt}, {LabelStmt, ForeachStmt}, {CaseStmt, OrOrExpr}}

InitHash ==
  /\ alphabet \in TokenAlphabets
  /\ Hash = NewPGOHash
  /\ tokens = <<>>
  /\ hashed = NotFinalized
  /\ QueryIdle
  /\ PGOIdle

\* Hash.combine(Type); the assertions of combine hold for every HashType.
Combine(Type) ==
  /\ hashed = NotFinalized
  /\ Len(tokens) < MaxTokens
  /\ Type # 0 /\ Type < TooBig
  /\ Hash' = combine(Hash, Type)
  /\ tokens' = Append(tokens, Type)
  /\ UNCHANGED <<alphabet, hashed, queryVars, pgoVars>>

\* Hash.finalize()
Finalize ==
  /\ hashed = NotFinalized
  /\ hashed' = finalize(Hash)
  /\ Hash' = [Hash EXCEPT !.MD5 = finalize(Hash).fed]
  /\ UNCHANGED <<alphabet, tokens, queryVars, pgoVars>>

NextHash ==
  \/ \E Type \in alphabet : Combine(Type)
  \/ Finalize

SpecHash == InitHash /\ [][NextHash]_vars

(***************************************************************************)
(* Claims about the hasher                                                 *)
(***************************************************************************)
\* The 6-bit group k of a word (group 0 is the least significant; group 10
\* holds the four top bits).
Group6(w, k) ==
  LET b(j) == IF 6 * k + j < 64 THEN Bit64(w, 6 * k + j) ELSE 0
  IN  b(0) + 2 * b(1) + 4 * b(2) + 8 * b(3) + 16 * b(4) + 32 * b(5)

\* The token sequence a packed word stands for: its 6-bit groups from the
\* most significant non-zero group down.
Unpack(w) ==
  LET used == {k \in 0..10 : Group6(w, k) # 0}
      n == IF used = {} THEN 0
           ELSE 1 + CHOOSE k \in used : \A j \in used : j <= k
  IN  [i \in 1..n |-> Group6(w, n - i)]

\* C2: a sequence of at most 10 tokens is returned packed 6 bits per token
\* in order of combination, nothing is fed to the digest, and the word
\* determines the sequence (so two different sequences never share it).
C2_ShortSequencesArePacked ==
  (hashed # NotFinalized /\ Len(tokens) <= 10) =>
    /\ ~hashed.viaMD5
    /\ hashed.fed = <<>>
    /\ \A i \in 1..Len(tokens) :
         Group6(hashed.word, Len(tokens) - i) = tokens[i]
    /\ Unpack(hashed.word) = tokens

C2_Witness ==
  /\ hashed # NotFinalized
  /\ Len(tokens) = 10
  /\ tokens[1] # tokens[2]
  /\ tokens[9] # tokens[10]

\* The bytes finalize feeds to the digest for the token sequence seq.
DigestInput(seq) == finalize(combineAll(NewPGOHash, seq)).fed

\* C3: for a sequence of more than 10 tokens every token contributes to
\* the data fed to the digest: replacing any one token by a different one
\* changes that data.
C3_EveryTokenReachesDigest ==
  (hashed # NotFinalized /\ Len(tokens) > 10) =>
    \A i \in 1..Len(tokens) : \A Type \in alphabet \ {tokens[i]} :
      DigestInput([tokens EXCEPT ![i] = Type]) # hashed.fed

(***************************************************************************)
(* The weight synthesis on its own: one call of createProfileWeights, in   *)
(* either form, on counts drawn from CountValues.                          *)
(***************************************************************************)
\* Longest count vector given to the vector form.
MaxWeights == 3

\* Counts around every threshold of the scaling: 0, small values, the
\* neighbourhood of 2^32 - 1 and of its multiples, and the top of the range.
CountValues ==
  {Zero64, ToU64(3), Sub64(UINT32_MAX, One64), UINT32_MAX,
   Add64(UINT32_MAX, One64), Add64(UINT32_MAX, UINT32_MAX),
   <<0, 0, 1, 1>>, UINT64_MAX}

CountVectors == UNION {[1..n -> CountValues] : n \in 0..MaxWeights}

InitWeights ==
  /\ HashIdle
  /\ PGOIdle
  /\ \/ query \in [form : {"pair"}, counts : [1..2 -> CountValues],
                   stmt : {NULL}]
     \/ query \in [form : {"vector"}, counts : CountVectors, stmt : {NULL}]
  /\ result = NoResult

\* createProfileWeights(TrueCount, FalseCount)
CreateProfileWeightsPair ==
  /\ query.form = "pair"
  /\ result = NoResult
  /\ result' = createProfileWeights(query.counts[1], query.counts[2])
  /\ UNCHANGED <<hashVars, query, pgoVars>>

\* createProfileWeights(Weights)
CreateProfileWeightsVector ==
  /\ query.form = "vector"
  /\ result = NoResult
  /\ result' = createProfileWeightsVector(query.counts)
  /\ UNCHANGED <<hashVars, query, pgoVars>>

NextWeights ==
  \/ CreateProfileWeightsPair
  \/ CreateProfileWeightsVector

SpecWeights == InitWeights /\ [][NextWeights]_vars

(***************************************************************************)
(* Claims about the weight synthesis                                       *)
(***************************************************************************)
AllZero(counts) == \A i \in DOMAIN counts : counts[i] = Zero64

\* The scale the specification gives for a count sequence: 1 if
\* max(counts) < 2^32 - 1, max(counts) / (2^32 - 1) + 1 otherwise.
SpecScale(counts) ==
  IF Less64(MaxElement(counts), UINT32_MAX)
  THEN One64
  ELSE Add64(Div64(MaxElement(counts), UINT32_MAX), One64)

\* One weight per count, each count / scale + 1.
SmoothedWeights(counts, weights) ==
  LET scale == SpecScale(counts)
  IN  /\ DOMAIN weights = DOMAIN counts
      /\ \A i \in DOMAIN counts :
           weights[i] = Add64(Div64(counts[i], scale), One64)

\* C6 as stated: both forms return no weights exactly for an all-zero
\* input, and count / scale + 1 per count for every other input.
C6_AsStated ==
  (query.form \in {"pair", "vector"} /\ result # NoResult) =>
    IF AllZero(query.counts)
    THEN result.isNull
    ELSE ~result.isNull /\ SmoothedWeights(query.counts, result.weights)

\* C6 amended: as stated, except that the vector form returns no weights
\* for every input of fewer than two counts.
C6_WeightsSmoothedAndScaled ==
  (query.form \in {"pair", "vector"} /\ result # NoResult) =>
    IF AllZero(query.counts) \/ (query.form = "vector" /\ Len(query.counts) < 2)
    THEN result.isNull
    ELSE ~result.isNull /\ SmoothedWeights(query.counts, result.weights)

C6_Witness ==
  /\ query.form = "vector"
  /\ query.counts = <<ToU64(3), Zero64>>
  /\ result # NoResult
  /\ result.weights = <<ToU64(4), One64>>

\* C7: no assertion of scaleBranchWeight fails, and every count / scale + 1
\* is at most 2^32 - 1, whatever the 64-bit counts.
C7_WeightsFit32Bits ==
  (query.form \in {"pair", "vector"} /\ result # NoResult) =>
    /\ result.failed = {}
    /\ ~result.isNull =>
         LET scale == SpecScale(query.counts)
         IN  \A i \in DOMAIN query.counts :
               LET scaled == Add64(Div64(query.counts[i], scale), One64)
               IN  Leq64(scaled, UINT32_MAX) /\ result.weights[i] = scaled

C7_Witness ==
  /\ query.form = "pair"
  /\ query.counts = <<UINT64_MAX, UINT32_MAX>>
  /\ ~result.isNull
  /\ result.weights[1] = UINT32_MAX

(***************************************************************************)
(* The function tree.  A node has a kind (the name of its class), its      *)
(* children in the order of the fields the passes read (a "Null" node      *)
(* where the field is a null pointer), the gototarget flag of a case or    *)
(* default statement, and the label a break or continue names.  The        *)
(* identity of a node is its path from the root; a "Same" node stands for  *)
(* a second edge to the node at path target.                               *)
(***************************************************************************)
Node(kind, kids) ==
  [kind |-> kind, kids |-> kids, gototarget |-> FALSE, target |-> <<>>]

Null == Node("Null", <<>>)

RECURSIVE NodeAt(_, _)
NodeAt(root, path) ==
  IF path = <<>> THEN root
  ELSE NodeAt(root.kids[Head(path)], Tail(path))

\* The pointer stored in the field at path: null, or the node it leads to.
Ref(path) ==
  LET n == NodeAt(fn, path)
  IN  IF n.kind = "Null" THEN NULL
      ELSE IF n.kind = "Same" THEN Ptr(n.target)
      ELSE Ptr(path)

\* CodeGenPGO::getCounterPtr
getCounterPtr(ptr, counter_idx) == [ptr EXCEPT !.off = @ + counter_idx]

(***************************************************************************)
(* MapRegionCounters: the visitor of the mapping pass.  Its state is the   *)
(* record [NextCounter, Hash, CounterMap, stop].                           *)
(***************************************************************************)
NewMapRegionCounters ==
  [NextCounter |-> 0, Hash |-> NewPGOHash, CounterMap |-> <<>>, stop |-> FALSE]

\* CounterMap[key] = NextCounter++
AssignCounter(m, key) ==
  [m EXCEPT !.CounterMap = (key :> m.NextCounter) @@ @, !.NextCounter = @ + 1]

\* Hash.combine(Type)
HashCombine(m, Type) == [m EXCEPT !.Hash = combine(@, Type)]

\* The token of the handlers that do SKIP_VISITED, assign one counter and
\* combine one token: if, while, do, for, foreach, foreach-range, label,
\* switch, ?:, && and ||.
HashTypeOf(kind) ==
  CASE kind = "IfStatement" -> IfStmt
    [] kind = "WhileStatement" -> WhileStmt
    [] kind = "DoStatement" -> DoStmt
    [] kind = "ForStatement" -> ForStmt
    [] kind = "ForeachStatement" -> ForeachStmt
    [] kind = "ForeachRangeStatement" -> ForeachRangeStmt
    [] kind = "LabelStatement" -> LabelStmt
    [] kind = "SwitchStatement" -> SwitchStmt
    [] kind = "CondExp" -> ConditionalExpr
    [] kind = "AndAndExp" -> AndAndExpr
    [] kind = "OrOrExp" -> OrOrExpr

\* A mutation of MapVisit: without SKIP_VISITED.
MapVisit_NoSkipVisited(m, stmt, Type) ==
  HashCombine(AssignCounter(m, stmt), Type)

\* visit(IfStatement), visit(WhileStatement), ..., visit(OrOrExp) of
\* MapRegionCounters, which differ in the token only.
MapVisit(m, stmt, Type) ==
  IF stmt \in DOMAIN m.CounterMap
  THEN m
  ELSE HashCombine(AssignCounter(m, stmt), Type)

\* A mutation of visit(FuncDeclaration): a nested function declaration
\* does not stop the walk.
MapVisitFuncDeclaration_NoStop(m, fbody) ==
  IF m.NextCounter # 0
  THEN m
  ELSE AssignCounter(m, fbody)

\* visit(FuncDeclaration)
MapVisitFuncDeclaration(m, fbody) ==
  IF m.NextCounter # 0
  THEN [m EXCEPT !.stop = TRUE]
  ELSE AssignCounter(m, fbody)

\* visit(CaseStatement) and visit(DefaultStatement)
MapVisitCaseStatement(m, stmt, Type, gototarget) ==
  IF stmt \in DOMAIN m.CounterMap
  THEN m
  ELSE
    LET m1 == HashCombine(AssignCounter(m, stmt), Type)
    IN  IF gototarget
        THEN HashCombine(AssignCounter(m1, getCounterPtr(stmt, 1)), CaseGoto)
        ELSE m1

RECURSIVE MapCatches(_, _)
\* for (auto c : *stmt->catches) of visit(TryCatchStatement)
MapCatches(m, catches) ==
  IF catches = <<>> THEN m
  ELSE MapCatches(HashCombine(AssignCounter(m, Head(catches)), TryCatchCatch),
                  Tail(catches))

\* visit(TryCatchStatement)
MapVisitTryCatchStatement(m, stmt, catches) ==
  IF stmt \in DOMAIN m.CounterMap
  THEN m
  ELSE MapCatches(HashCombine(AssignCounter(m, stmt), TryCatchStmt), catches)

\* visit(TryFinallyStatement)
MapVisitTryFinallyStatement(m, stmt, _body, finalbody) ==
  IF _body = NULL \/ finalbody = NULL
  THEN m
  ELSE IF stmt \in DOMAIN m.CounterMap
  THEN m
  ELSE HashCombine(AssignCounter(m, stmt), TryFinallyStmt)

\* The handler of MapRegionCounters the node at path is dispatched to; the
\* handlers of the other statements, expressions and declarations are empty.
MapDispatch(m, path) ==
  LET n == NodeAt(fn, path)
      kid(i) == Ref(Append(path, i))
  IN  CASE n.kind = "FuncDeclaration" -> MapVisitFuncDeclaration(m, kid(1))
        [] n.kind \in {"IfStatement", "WhileStatement", "DoStatement",
                       "ForStatement", "ForeachStatement",
                       "ForeachRangeStatement", "LabelStatement",
                       "SwitchStatement", "CondExp", "AndAndExp", "OrOrExp"}
             -> MapVisit(m, Ptr(path), HashTypeOf(n.kind))
        [] n.kind = "CaseStatement"
             -> MapVisitCaseStatement(m, Ptr(path), CaseStmt, n.gototarget)
        [] n.kind = "DefaultStatement"
             -> MapVisitCaseStatement(m, Ptr(path), DefaultStmt, n.gototarget)
        [] n.kind = "TryCatchStatement"
             -> MapVisitTryCatchStatement(m, Ptr(path),
                  [i \in 1..(Len(n.kids) - 1) |-> kid(i + 1)])
        [] n.kind = "TryFinallyStatement"
             -> MapVisitTryFinallyStatement(m, Ptr(path), kid(1), kid(2))
        [] OTHER -> m

RECURSIVE MapWalk(_, _)
RECURSIVE MapWalkKids(_, _, _)
\* RecursiveWalker: visit the node, then its children in order unless the
\* visitor asked to stop at this depth; a null child is skipped.
MapWalk(m, path) ==
  LET n == NodeAt(fn, path)
  IN  IF n.kind = "Null" THEN m
      ELSE IF n.kind = "Same" THEN MapWalk(m, n.target)
      ELSE
        LET m1 == MapDispatch(m, path)
        IN  IF m1.stop
            THEN [m1 EXCEPT !.stop = FALSE]
            ELSE MapWalkKids(m1, path, 1)

MapWalkKids(m, path, i) ==
  IF i > Len(NodeAt(fn, path).kids) THEN m
  ELSE MapWalkKids(MapWalk(m, Append(path, i)), path, i + 1)

\* CodeGenPGO::mapRegionCounters
mapRegionCounters ==
  LET regioncounter == MapWalk(NewMapRegionCounters, <<>>)
  IN  [RegionCounterMap |-> regioncounter.CounterMap,
       NumRegionCounters |-> regioncounter.NextCounter,
       FunctionHash |-> finalize(regioncounter.Hash),
       failed |->
         (IF regioncounter.NextCounter > 0 THEN {}
          ELSE {"no entry counter mapped for decl"})
         \cup
         (IF regioncounter.NextCounter
               = Cardinality(DOMAIN regioncounter.CounterMap)
          THEN {}
          ELSE {"regioncounter.NextCounter == RegionCounterMap->size()"})]

(***************************************************************************)
(* Reading the profile: the accessors of CodeGenPGO and loadRegionCounts.  *)
(***************************************************************************)
\* CodeGenPGO::haveRegionCounts: RegionCounts is not empty.
haveRegionCounts == RegionCounts # <<>>

\* CodeGenPGO::getRegionCount: the raw count of the counter of S, 0 when
\* there is no map or there are no counts.  A key that has no counter reads
\* counter 0, the function entry: applyFunctionAttributes reads the
\* function count under the null key.
getRegionCount(S) ==
  IF DOMAIN RegionCounterMap = {} \/ ~haveRegionCounts
  THEN Zero64
  ELSE IF S \in DOMAIN RegionCounterMap
  THEN RegionCounts[RegionCounterMap[S] + 1]
  ELSE RegionCounts[1]

\* CodeGenPGO::getStmtCount: whether S has a count in StmtCountMap, and it.
getStmtCount(S) ==
  IF S \in DOMAIN StmtCountMap
  THEN [first |-> TRUE, second |-> StmtCountMap[S]]
  ELSE [first |-> FALSE, second |-> Zero64]

\* warning(fd->loc, format, fd->toPrettyChars(), FuncName.c_str())
\* the format is the sequence of its adjacent string literals
warning(format) == [format |-> format, args |-> <<"foo", "foo">>]

\* A mutation of loadRegionCounts: without the RegionCounts.clear() that
\* follows a failed lookup.
loadRegionCounts_NoClear(EC, Counts) ==
  [RegionCounts |-> Counts,
   warnings |->
     IF EC \in {"success", "unknown_function"} THEN <<>>
     ELSE IF EC \in {"hash_mismatch", "malformed"}
     THEN <<warning(<<"Ignoring profile data for function '%s' ('%s'): ",
                        "control-flow hash mismatch">>)>>
     ELSE <<warning(<<"Error loading profile data for function '%s' ('%s')">>)>>]

\* CodeGenPGO::loadRegionCounts, where PGOReader->getFunctionCounts returns
\* the error code EC having written Counts into RegionCounts: the counts
\* left and the warnings emitted.
loadRegionCounts(EC, Counts) ==
  IF EC # "success"
  THEN
    [RegionCounts |-> <<>>,
     warnings |->
       IF EC = "unknown_function" THEN <<>>
       ELSE IF EC = "hash_mismatch"
       THEN <<warning(<<"Ignoring profile data for function '%s' ('%s'): ",
                        "control-flow hash mismatch">>)>>
       ELSE IF EC = "malformed"
       THEN <<warning(<<"Ignoring profile data for function '%s' ('%s'): ",
                        "control-flow hash mismatch">>)>>
       ELSE <<warning(<<"Error loading profile data for function '%s' ('%s')">>)>>]
  ELSE [RegionCounts |-> Counts, warnings |-> <<>>]

(***************************************************************************)
(* ComputeRegionCounts: the visitor of the counting pass.  Its state is    *)
(* the record c of its members CurrentCount, RecordNextStmtCount,          *)
(* CountMap, BreakContinueStack, LoopLabels, the assertions that failed,   *)
(* and a history of the walk: order (the nodes in the order they were      *)
(* entered), pre and post (the members on entry to and exit from the       *)
(* handler of a node), wrote (the CountMap entries the handler of a node   *)
(* stored) and frames (the BreakContinue a loop or switch popped).         *)
(***************************************************************************)
NewComputeRegionCounts ==
  [CurrentCount |-> Zero64, RecordNextStmtCount |-> FALSE, CountMap |-> <<>>,
   BreakContinueStack |-> <<>>, LoopLabels |-> <<>>, failed |-> {},
   order |-> <<>>, wrote |-> <<>>, pre |-> <<>>, post |-> <<>>,
   frames |-> <<>>]

\* CountMap[key] = Count, in the handler of S
Store(c, S, key, Count) ==
  [c EXCEPT !.CountMap = (key :> Count) @@ @,
            !.wrote = (<<S, key>> :> Count) @@ @]

\* A mutation of RecordStmtCount: the count is recorded whether the flag
\* is armed or not.
RecordStmtCount_Always(c, S) ==
  [c EXCEPT !.CountMap = (S :> c.CurrentCount) @@ @,
            !.RecordNextStmtCount = FALSE]

\* ComputeRegionCounts::RecordStmtCount
RecordStmtCount(c, S) ==
  IF c.RecordNextStmtCount
  THEN [c EXCEPT !.CountMap = (S :> c.CurrentCount) @@ @,
                 !.RecordNextStmtCount = FALSE]
  ELSE c

\* ComputeRegionCounts::setCount
setCount(c, Count) == [c EXCEPT !.CurrentCount = Count]

\* RecordNextStmtCount = true
Arm(c) == [c EXCEPT !.RecordNextStmtCount = TRUE]

\* BreakContinue()
BreakContinue == [BreakCount |-> Zero64, ContinueCount |-> Zero64]

\* BreakContinueStack.push_back(BreakContinue())
push_back(c) == [c EXCEPT !.BreakContinueStack = Append(@, BreakContinue)]

\* BreakContinueStack.pop_back_val() in the handler of S; the value popped
\* is frames[S].
pop_back_val(c, S) ==
  [c EXCEPT !.BreakContinueStack = SubSeq(@, 1, Len(@) - 1),
            !.frames = (S :> c.BreakContinueStack[Len(c.BreakContinueStack)]) @@ @]

\* recurse(): the dispatch to the handler of the node at path, defined below.
RECURSIVE recurse(_, _)

\* visit(FuncDeclaration)
VisitFuncDeclaration(c, path) ==
  LET fbody == Append(path, 1)
      BodyCount == getRegionCount(Ref(fbody))
      c1 == Store(setCount(c, BodyCount), Ptr(path), Ref(fbody), BodyCount)
  IN  recurse(c1, fbody)

\* visit(ReturnStatement) and visit(ThrowStatement)
VisitReturnStatement(c, path) ==
  LET c1 == RecordStmtCount(c, Ptr(path))
      c2 == recurse(c1, Append(path, 1))
  IN  Arm(setCount(c2, Zero64))

\* A mutation of visit(GotoStatement) and of the goto case and goto default
\* handlers: the flag is not armed.
VisitGotoStatement_NotArmed(c, path) ==
  setCount(RecordStmtCount(c, Ptr(path)), Zero64)

\* visit(GotoStatement), visit(GotoDefaultStatement), visit(GotoCaseStatement)
VisitGotoStatement(c, path) ==
  Arm(setCount(RecordStmtCount(c, Ptr(path)), Zero64))

\* visit(LabelStatement)
VisitLabelStatement(c, path) ==
  LET S == Ptr(path)
      c1 == [c EXCEPT !.RecordNextStmtCount = FALSE]
      BlockCount == getRegionCount(S)
      c2 == Store(setCount(c1, BlockCount), S, S, BlockCount)
      c3 == [c2 EXCEPT !.LoopLabels =
               Append(@, [label |-> S,
                          stackindex |-> Len(c2.BreakContinueStack)])]
  IN  recurse(c3, Append(path, 1))

\* A mutation of the target resolution of break and continue: the label is
\* ignored and the innermost frame is taken.
TargetFrame_Innermost(c, target, what) ==
  IF c.BreakContinueStack = <<>>
  THEN [index |-> 0, failed |-> {what}]
  ELSE [index |-> Len(c.BreakContinueStack), failed |-> {}]

\* The frame a break or continue with the given target adds to: the index
\* in BreakContinueStack, or 0 with the assertion that fails.
TargetFrame(c, target, what) ==
  IF c.BreakContinueStack = <<>>
  THEN [index |-> 0, failed |-> {what}]
  ELSE IF target = <<>>
  THEN [index |-> Len(c.BreakContinueStack), failed |-> {}]
  ELSE
    LET found == {i \in DOMAIN c.LoopLabels : c.LoopLabels[i].label = Ptr(target)}
    IN  IF found = {}
        THEN [index |-> 0, failed |-> {"label that has not been visited yet"}]
        ELSE
          LET LL == c.LoopLabels[CHOOSE i \in found : \A j \in found : i <= j]
          IN  IF LL.stackindex < Len(c.BreakContinueStack)
              THEN [index |-> LL.stackindex + 1, failed |-> {}]
              ELSE [index |-> 0,
                    failed |-> {"LL.stackindex < BreakContinueStack.size()"}]

\* visit(BreakStatement)
VisitBreakStatement(c, path) ==
  LET c1 == RecordStmtCount(c, Ptr(path))
      frame == TargetFrame(c1, NodeAt(fn, path).target,
                           "break not in a loop or switch!")
      c2 == IF frame.index = 0
            THEN [c1 EXCEPT !.failed = @ \cup frame.failed]
            ELSE [c1 EXCEPT !.BreakContinueStack[frame.index].BreakCount =
                              Add64(@, c1.CurrentCount)]
  IN  Arm(setCount(c2, Zero64))

\* visit(ContinueStatement)
VisitContinueStatement(c, path) ==
  LET c1 == RecordStmtCount(c, Ptr(path))
      frame == TargetFrame(c1, NodeAt(fn, path).target,
                           "continue stmt not in a loop!")
      c2 == IF frame.index = 0
            THEN [c1 EXCEPT !.failed = @ \cup frame.failed]
            ELSE [c1 EXCEPT !.BreakContinueStack[frame.index].ContinueCount =
                              Add64(@, c1.CurrentCount)]
  IN  Arm(setCount(c2, Zero64))

\* The tail of the loop handlers: setCount(BC.BreakCount + CondCount -
\* BodyCount); RecordNextStmtCount = true.
LoopExit(c, BC, CondCount, BodyCount) ==
  Arm(setCount(c, Sub64(Add64(BC.BreakCount, CondCount), BodyCount)))

\* visit(WhileStatement)
VisitWhileStatement(c, path) ==
  LET S == Ptr(path)
      condition == Append(path, 1)
      _body == Append(path, 2)
      c1 == RecordStmtCount(c, S)
      ParentCount == c1.CurrentCount
      c2 == push_back(c1)
      BodyCount == getRegionCount(S)
      c3 == setCount(c2, BodyCount)
      c4 == recurse(Store(c3, S, Ref(_body), c3.CurrentCount), _body)
      BackedgeCount == c4.CurrentCount
      c5 == pop_back_val(c4, S)
      BC == c5.frames[S]
      CondCount == Add64(Add64(ParentCount, BackedgeCount), BC.ContinueCount)
      c6 == Store(setCount(c5, CondCount), S, Ref(condition), CondCount)
      c7 == recurse(c6, condition)
  IN  LoopExit(c7, BC, CondCount, BodyCount)

\* A mutation of visit(DoStatement): the rule of the while loop, with the
\* count the loop is reached with added to the condition count.
VisitDoStatement_AsWhile(c, path) ==
  LET S == Ptr(path)
      c1 == RecordStmtCount(c, S)
      ParentCount == c1.CurrentCount
      BodyCount == getRegionCount(S)
      c3 == Store(setCount(push_back(c1), BodyCount), S,
                  Ref(Append(path, 1)), BodyCount)
      c4 == recurse(c3, Append(path, 1))
      c5 == pop_back_val(c4, S)
      BC == c5.frames[S]
      CondCount == Add64(Add64(ParentCount, c4.CurrentCount), BC.ContinueCount)
      c6 == Store(setCount(c5, CondCount), S, Ref(Append(path, 2)), CondCount)
  IN  LoopExit(recurse(c6, Append(path, 2)), BC, CondCount, BodyCount)

\* visit(DoStatement)
VisitDoStatement(c, path) ==
  LET S == Ptr(path)
      _body == Append(path, 1)
      condition == Append(path, 2)
      c1 == RecordStmtCount(c, S)
      FallThroughCount == c1.CurrentCount
      c2 == push_back(c1)
      BodyCount == getRegionCount(S)
      c3 == Store(setCount(c2, BodyCount), S, Ref(_body), BodyCount)
      c4 == recurse(c3, _body)
      BackedgeCount == c4.CurrentCount
      c5 == pop_back_val(c4, S)
      BC == c5.frames[S]
      CondCount == Add64(BackedgeCount, BC.ContinueCount)
      c6 == Store(setCount(c5, CondCount), S, Ref(condition), CondCount)
      c7 == recurse(c6, condition)
      LoopCount == Sub64(BodyCount, FallThroughCount)
  IN  LoopExit(c7, BC, CondCount, LoopCount)

\* A mutation of visit(ForStatement): the condition count leaves out the
\* count of the continue statements.
VisitForStatement_NoContinue(c, path) ==
  LET S == Ptr(path)
      c1 == recurse(RecordStmtCount(c, S), Append(path, 1))
      ParentCount == c1.CurrentCount
      BodyCount == getRegionCount(S)
      c3 == Store(setCount(push_back(c1), BodyCount), S,
                  Ref(Append(path, 4)), BodyCount)
      c4 == recurse(c3, Append(path, 4))
      BackedgeCount == c4.CurrentCount
      c5 == pop_back_val(c4, S)
      BC == c5.frames[S]
      CondCount == Add64(ParentCount, BackedgeCount)
      c8 == Store(setCount(c5, CondCount), S,
                  IF Ref(Append(path, 2)) # NULL THEN Ref(Append(path, 2))
                  ELSE getCounterPtr(S, 1), CondCount)
  IN  LoopExit(recurse(c8, Append(path, 2)), BC, CondCount, BodyCount)

\* visit(ForStatement)
VisitForStatement(c, path) ==
  LET S == Ptr(path)
      _init == Append(path, 1)
      condition == Append(path, 2)
      increment == Append(path, 3)
      _body == Append(path, 4)
      c1 == recurse(RecordStmtCount(c, S), _init)
      ParentCount == c1.CurrentCount
      c2 == push_back(c1)
      BodyCount == getRegionCount(S)
      c3 == Store(setCount(c2, BodyCount), S, Ref(_body), BodyCount)
      c4 == recurse(c3, _body)
      BackedgeCount == c4.CurrentCount
      c5 == pop_back_val(c4, S)
      BC == c5.frames[S]
      IncCount == Add64(BackedgeCount, BC.ContinueCount)
      c7 == IF Ref(increment) # NULL
            THEN recurse(Store(setCount(c5, IncCount), S, Ref(increment),
                               IncCount), increment)
            ELSE c5
      CondCount == Add64(Add64(ParentCount, BackedgeCount), BC.ContinueCount)
      c8 == Store(setCount(c7, CondCount), S,
                  IF Ref(condition) # NULL THEN Ref(condition)
                  ELSE getCounterPtr(S, 1), CondCount)
      c9 == recurse(c8, condition)
  IN  LoopExit(c9, BC, CondCount, BodyCount)

\* The part visit(ForeachStatement) and visit(ForeachRangeStatement) share,
\* from "uint64_t ParentCount = CurrentCount" on; _body is the path of the
\* body.
ForeachLoop(c1, S, _body) ==
  LET ParentCount == c1.CurrentCount
      c2 == push_back(c1)
      BodyCount == getRegionCount(S)
      c3 == Store(setCount(c2, BodyCount), S, Ref(_body), BodyCount)
      c4 == recurse(c3, _body)
      BackedgeCount == c4.CurrentCount
      c5 == pop_back_val(c4, S)
      BC == c5.frames[S]
      CondCount == Add64(Add64(ParentCount, BackedgeCount), BC.ContinueCount)
      c6 == Store(c5, S, getCounterPtr(S, 1), CondCount)
  IN  LoopExit(c6, BC, CondCount, BodyCount)

\* visit(ForeachStatement)
VisitForeachStatement(c, path) ==
  LET S == Ptr(path)
      aggr == Append(path, 1)
      c1 == recurse(RecordStmtCount(c, S), aggr)
  IN  ForeachLoop(c1, S, Append(path, 2))

\* visit(ForeachRangeStatement)
VisitForeachRangeStatement(c, path) ==
  LET S == Ptr(path)
      lwr == Append(path, 1)
      upr == Append(path, 2)
      c1 == recurse(recurse(RecordStmtCount(c, S), lwr), upr)
  IN  ForeachLoop(c1, S, Append(path, 3))

\* A mutation of visit(SwitchStatement): the continue count of the popped
\* frame is dropped.
VisitSwitchStatement_NoFold(c, path) ==
  LET S == Ptr(path)
      c1 == recurse(RecordStmtCount(c, S), Append(path, 1))
      c3 == recurse(push_back(setCount(c1, Zero64)), Append(path, 2))
  IN  Arm(setCount(pop_back_val(c3, S), getRegionCount(S)))

\* visit(SwitchStatement)
VisitSwitchStatement(c, path) ==
  LET S == Ptr(path)
      condition == Append(path, 1)
      _body == Append(path, 2)
      c1 == recurse(RecordStmtCount(c, S), condition)
      c2 == push_back(setCount(c1, Zero64))
      c3 == recurse(c2, _body)
      c4 == pop_back_val(c3, S)
      BC == c4.frames[S]
      c5 == IF c4.BreakContinueStack # <<>>
            THEN [c4 EXCEPT
                    !.BreakContinueStack[Len(c4.BreakContinueStack)].ContinueCount =
                      Add64(@, BC.ContinueCount)]
            ELSE c4
  IN  Arm(setCount(c5, getRegionCount(S)))

\* A mutation of visit(CaseStatement): the count of a case that is not a
\* goto-case target leaves out the count that falls through from above.
VisitCaseStatement_NoFallThrough(c, path) ==
  LET S == Ptr(path)
      CaseCount == getRegionCount(S)
      c1 == Store(c, S, S, CaseCount)
      cntr == getCounterPtr(S, 1)
      c2 == IF NodeAt(fn, path).gototarget
            THEN Store(setCount(c1, getRegionCount(cntr)), S, cntr,
                       getRegionCount(cntr))
            ELSE setCount(c1, CaseCount)
  IN  recurse(Arm(c2), Append(path, 1))

\* visit(CaseStatement) and visit(DefaultStatement)
VisitCaseStatement(c, path) ==
  LET S == Ptr(path)
      CaseCount == getRegionCount(S)
      c1 == Store(c, S, S, CaseCount)
      cntr == getCounterPtr(S, 1)
      c2 == IF NodeAt(fn, path).gototarget
            THEN Store(setCount(c1, getRegionCount(cntr)), S, cntr,
                       getRegionCount(cntr))
            ELSE setCount(c1, Add64(c1.CurrentCount, CaseCount))
  IN  recurse(Arm(c2), Append(path, 1))

\* A mutation of visit(IfStatement): the count of the else part is the
\* count the if was reached with.
VisitIfStatement_ElseIsParent(c, path) ==
  LET S == Ptr(path)
      c1 == RecordStmtCount(c, S)
      ParentCount == c1.CurrentCount
      c2 == recurse(c1, Append(path, 1))
      ThenCount == getRegionCount(S)
      c4 == recurse(Store(setCount(c2, ThenCount), S, Ref(Append(path, 2)),
                          ThenCount), Append(path, 2))
      c6 == IF Ref(Append(path, 3)) # NULL
            THEN recurse(Store(setCount(c4, ParentCount), S,
                               Ref(Append(path, 3)), ParentCount),
                         Append(path, 3))
            ELSE c4
  IN  Arm(setCount(c6, Add64(c4.CurrentCount,
                             IF Ref(Append(path, 3)) # NULL
                             THEN c6.CurrentCount ELSE ParentCount)))

\* visit(IfStatement)
VisitIfStatement(c, path) ==
  LET S == Ptr(path)
      condition == Append(path, 1)
      ifbody == Append(path, 2)
      elsebody == Append(path, 3)
      c1 == RecordStmtCount(c, S)
      ParentCount == c1.CurrentCount
      c2 == recurse(c1, condition)
      ThenCount == getRegionCount(S)
      c3 == Store(setCount(c2, ThenCount), S, Ref(ifbody), ThenCount)
      c4 == recurse(c3, ifbody)
      ElseCount == Sub64(ParentCount, ThenCount)
      c6 == IF Ref(elsebody) # NULL
            THEN recurse(Store(setCount(c4, ElseCount), S, Ref(elsebody),
                               ElseCount), elsebody)
            ELSE c4
      OutCount == Add64(c4.CurrentCount,
                        IF Ref(elsebody) # NULL THEN c6.CurrentCount
                        ELSE ElseCount)
  IN  Arm(setCount(c6, OutCount))

RECURSIVE VisitCatches(_, _, _)
\* for (auto c : *S->catches) of visit(TryCatchStatement); the catches are
\* the children of the statement from the second on.
VisitCatches(c, path, i) ==
  IF i > Len(NodeAt(fn, path).kids) THEN c
  ELSE
    LET catch == Append(path, i)
        c1 == Arm(setCount(c, getRegionCount(Ref(catch))))
    IN  VisitCatches(recurse(c1, Append(catch, 1)), path, i + 1)

\* visit(TryCatchStatement)
VisitTryCatchStatement(c, path) ==
  LET S == Ptr(path)
      c1 == Arm(RecordStmtCount(c, S))
      c2 == recurse(c1, Append(path, 1))
      c3 == VisitCatches(c2, path, 2)
  IN  Arm(setCount(c3, getRegionCount(S)))

\* visit(TryFinallyStatement)
VisitTryFinallyStatement(c, path) ==
  LET S == Ptr(path)
      _body == Append(path, 1)
      finalbody == Append(path, 2)
      c1 == RecordStmtCount(c, S)
      ParentCount == c1.CurrentCount
      c2 == recurse(Arm(c1), _body)
      c3 == recurse(Arm(setCount(c2, ParentCount)), finalbody)
  IN  Arm(setCount(c3, getRegionCount(S)))

\* visit(CondExp)
VisitCondExp(c, path) ==
  LET E == Ptr(path)
      econd == Append(path, 1)
      e1 == Append(path, 2)
      e2 == Append(path, 3)
      c1 == RecordStmtCount(c, E)
      ParentCount == c1.CurrentCount
      c2 == recurse(c1, econd)
      TrueCount == getRegionCount(E)
      c3 == recurse(Store(setCount(c2, TrueCount), E, Ref(e1), TrueCount), e1)
      FalseCount == Sub64(ParentCount, TrueCount)
      c4 == recurse(Store(setCount(c3, FalseCount), E, Ref(e2), FalseCount), e2)
      OutCount == Add64(c3.CurrentCount, c4.CurrentCount)
  IN  Arm(setCount(c4, OutCount))

\* visit(AndAndExp) and visit(OrOrExp)
VisitAndAndExp(c, path) ==
  LET E == Ptr(path)
      e1 == Append(path, 1)
      e2 == Append(path, 2)
      c1 == RecordStmtCount(c, E)
      ParentCount == c1.CurrentCount
      c2 == recurse(c1, e1)
      RHSCount == getRegionCount(E)
      c3 == recurse(Store(setCount(c2, RHSCount), E, Ref(e2), RHSCount), e2)
  IN  Arm(setCount(c3, Sub64(Add64(ParentCount, RHSCount), c3.CurrentCount)))

RECURSIVE RecurseKids(_, _, _)
\* RecursiveVisitor on a node ComputeRegionCounts has no handler for: its
\* children in order.
RecurseKids(c, path, i) ==
  IF i > Len(NodeAt(fn, path).kids) THEN c
  ELSE RecurseKids(recurse(c, Append(path, i)), path, i + 1)

\* The members of the visitor that the history keeps.
Snapshot(c) ==
  [CurrentCount |-> c.CurrentCount,
   RecordNextStmtCount |-> c.RecordNextStmtCount,
   BreakContinueStack |-> c.BreakContinueStack]

\* The handler of ComputeRegionCounts the node at path is dispatched to.  A
\* statement without a handler of its own goes to visit(Statement), which
\* is RecordStmtCount; a block and an expression only pass the walk on to
\* their children; the walk does not enter a nested function declaration.
Dispatch(c, path) ==
  LET kind == NodeAt(fn, path).kind
  IN  CASE kind = "FuncDeclaration" ->
             IF path = <<>> THEN VisitFuncDeclaration(c, path) ELSE c
        [] kind \in {"ReturnStatement", "ThrowStatement"} ->
             VisitReturnStatement(c, path)
        [] kind \in {"GotoStatement", "GotoDefaultStatement",
                     "GotoCaseStatement"} -> VisitGotoStatement(c, path)
        [] kind = "LabelStatement" -> VisitLabelStatement(c, path)
        [] kind = "BreakStatement" -> VisitBreakStatement(c, path)
        [] kind = "ContinueStatement" -> VisitContinueStatement(c, path)
        [] kind = "WhileStatement" -> VisitWhileStatement(c, path)
        [] kind = "DoStatement" -> VisitDoStatement(c, path)
        [] kind = "ForStatement" -> VisitForStatement(c, path)
        [] kind = "ForeachStatement" -> VisitForeachStatement(c, path)
        [] kind = "ForeachRangeStatement" ->
             VisitForeachRangeStatement(c, path)
        [] kind = "SwitchStatement" -> VisitSwitchStatement(c, path)
        [] kind \in {"CaseStatement", "DefaultStatement"} ->
             VisitCaseStatement(c, path)
        [] kind = "IfStatement" -> VisitIfStatement(c, path)
        [] kind = "TryCatchStatement" -> VisitTryCatchStatement(c, path)
        [] kind = "TryFinallyStatement" -> VisitTryFinallyStatement(c, path)
        [] kind = "CondExp" -> VisitCondExp(c, path)
        [] kind \in {"AndAndExp", "OrOrExp"} -> VisitAndAndExp(c, path)
        [] kind = "ExpStatement" ->
             RecurseKids(RecordStmtCount(c, Ptr(path)), path, 1)
        [] OTHER -> RecurseKids(c, path, 1)

\* recurse(x): nothing for a null pointer, else the handler of the node.
recurse(c, path) ==
  LET n == NodeAt(fn, path)
  IN  IF n.kind = "Null" THEN c
      ELSE IF n.kind = "Same" THEN recurse(c, n.target)
      ELSE
        LET S == Ptr(path)
            c0 == [c EXCEPT !.order = Append(@, S),
                            !.pre = (S :> Snapshot(c)) @@ @]
            c1 == Dispatch(c0, path)
        IN  [c1 EXCEPT !.post = (S :> Snapshot(c1)) @@ @]

\* CodeGenPGO::computeRegionCounts: the visitor after Walker.visit(FD).
computeRegionCounts == recurse(NewComputeRegionCounts, <<>>)

(***************************************************************************)
(* The loop weight adapters.                                               *)
(***************************************************************************)
\* A mutation of LoopWeights: CondCount - LoopCount without the max.
LoopWeights_NoMax(LoopCount, StmtCount, message) ==
  LET CondCount == StmtCount.second
      weights == IF CondCount = Zero64 THEN nullptr
                 ELSE createProfileWeights(LoopCount,
                                           Sub64(CondCount, LoopCount))
  IN  [weights EXCEPT !.failed = @ \cup (IF StmtCount.first THEN {}
                                         ELSE {message})]

\* The part the four adapters share, from the assertion on StmtCount.first
\* (with its message) to the return.
LoopWeights(LoopCount, StmtCount, message) ==
  LET CondCount == StmtCount.second
      weights == IF CondCount = Zero64 THEN nullptr
                 ELSE createProfileWeights(
                        LoopCount,
                        Sub64(Max64(CondCount, LoopCount), LoopCount))
  IN  [weights EXCEPT !.failed = @ \cup (IF StmtCount.first THEN {}
                                         ELSE {message})]

\* CodeGenPGO::createProfileWeightsWhileLoop
createProfileWeightsWhileLoop(Cond, LoopCount) ==
  IF ~haveRegionCounts THEN nullptr
  ELSE LoopWeights(LoopCount, getStmtCount(Cond),
                   "missing expected while loop condition count")

\* CodeGenPGO::createProfileWeightsForLoop; condition is stmt->condition
createProfileWeightsForLoop(stmt, condition) ==
  IF ~haveRegionCounts THEN nullptr
  ELSE LoopWeights(getRegionCount(stmt),
                   getStmtCount(IF condition # NULL THEN condition
                                ELSE getCounterPtr(stmt, 1)),
                   "missing expected for loop condition count")

\* CodeGenPGO::createProfileWeightsForeach
createProfileWeightsForeach(stmt) ==
  IF ~haveRegionCounts THEN nullptr
  ELSE LoopWeights(getRegionCount(stmt), getStmtCount(getCounterPtr(stmt, 1)),
                   "missing expected foreach loop condition count")

\* CodeGenPGO::createProfileWeightsForeachRange
createProfileWeightsForeachRange(stmt) ==
  IF ~haveRegionCounts THEN nullptr
  ELSE LoopWeights(getRegionCount(stmt), getStmtCount(getCounterPtr(stmt, 1)),
                   "missing expected foreachrange loop condition count")

(***************************************************************************)
(* The functions compiled.                                                 *)
(***************************************************************************)
Exp == Node("Expression", <<>>)

Plain == Node("ExpStatement", <<Exp>>)

Block(statements) == Node("CompoundStatement", statements)

Return == Node("ReturnStatement", <<Exp>>)

Jump(kind, target) == [Node(kind, <<>>) EXCEPT !.target = target]

Same(target) == Jump("Same", target)

If(condition, ifbody, elsebody) ==
  Node("IfStatement", <<condition, ifbody, elsebody>>)

Label(statement) == Node("LabelStatement", <<statement>>)

Switch(cases) == Node("SwitchStatement", <<Exp, Block(cases)>>)

Case(kind, gototarget, statement) ==
  [Node(kind, <<statement>>) EXCEPT !.gototarget = gototarget]

\* A loop of each kind around a body, with every other field present.
Loop(kind, _body) ==
  CASE kind = "WhileStatement" -> Node(kind, <<Exp, _body>>)
    [] kind = "DoStatement" -> Node(kind, <<_body, Exp>>)
    [] kind = "ForStatement" -> Node(kind, <<Plain, Exp, Exp, _body>>)
    [] kind = "ForeachStatement" -> Node(kind, <<Exp, _body>>)
    [] kind = "ForeachRangeStatement" -> Node(kind, <<Exp, Exp, _body>>)

LoopKinds ==
  {"WhileStatement", "DoStatement", "ForStatement", "ForeachStatement",
   "ForeachRangeStatement"}

\* The bodies of an if: without and with abrupt exits, and with the
\* constructs whose continuation has a counter of its own.
ThenBodies ==
  {Plain, Block(<<Plain>>), Block(<<Plain, Return>>),
   Block(<<Node("ThrowStatement", <<Exp>>)>>),
   Block(<<Jump("GotoStatement", <<>>)>>),
   Block(<<If(Exp, Plain, Null)>>),
   Block(<<Loop("WhileStatement", Plain)>>),
   Block(<<Node("ExpStatement", <<Node("CondExp", <<Exp, Exp, Exp>>)>>)>>),
   Label(Plain), Block(<<Label(Plain)>>),
   Block(<<Switch(<<Case("DefaultStatement", FALSE, Plain)>>)>>),
   Block(<<Node("TryFinallyStatement", <<Plain, Plain>>)>>)}

ElseBodies == {Null, Block(<<Plain>>), Block(<<Return>>), If(Exp, Plain, Null)}

IfStatements ==
  {If(Exp, t, e) : t \in ThenBodies, e \in ElseBodies}
  \cup {If(Node(k, <<Exp, Exp>>), t, Null) :
          k \in {"AndAndExp", "OrOrExp"},
          t \in {Plain, Block(<<Plain, Return>>), Block(<<Label(Plain)>>)}}

\* The bodies of a loop: plain, and with break, continue and return, directly
\* or under an if or a switch.
LoopBodies ==
  {Plain, Block(<<Plain>>), Label(Plain),
   Block(<<Jump("BreakStatement", <<>>)>>),
   Block(<<Jump("ContinueStatement", <<>>)>>),
   Block(<<Plain, Return>>),
   Block(<<If(Exp, Jump("BreakStatement", <<>>), Null), Plain>>),
   Block(<<If(Exp, Jump("ContinueStatement", <<>>), Null), Plain>>),
   Block(<<If(Exp, Jump("ContinueStatement", <<>>),
              Jump("BreakStatement", <<>>))>>),
   Block(<<Switch(<<Case("CaseStatement", FALSE,
                         Jump("ContinueStatement", <<>>)),
                    Case("DefaultStatement", FALSE,
                         Jump("BreakStatement", <<>>))>>)>>),
   Block(<<If(Exp, Plain, Null)>>)}

LoopStatements ==
  {Loop(k, b) : k \in LoopKinds, b \in LoopBodies}
  \cup {Node("ForStatement", <<Null, c, i, b>>) :
          c \in {Null, Exp}, i \in {Null, Exp},
          b \in {Plain, Block(<<Jump("ContinueStatement", <<>>)>>),
                 Block(<<If(Exp, Jump("BreakStatement", <<>>), Null), Plain>>)}}

\* A labelled loop, the first statement of the function, around an inner
\* loop that breaks out of and continues the labelled one.
LabelledLoops ==
  {Label(Loop(k, Block(<<Loop(j, Block(<<If(Exp,
       Jump("BreakStatement", <<1, 1>>),
       Jump("ContinueStatement", <<1, 1>>))>>))>>))) :
     k \in LoopKinds, j \in {"WhileStatement"}}

\* Most catches of a try/catch statement.
MaxCatches == 2

TryCatch(n, handler) ==
  Node("TryCatchStatement",
       <<Block(<<Plain>>)>> \o [i \in 1..n |-> Node("Catch", <<handler>>)])

\* Statement sequences for the mapping pass: a node reached twice (an if, a
\* loop, a goto-case target, a try/catch), case and default statements that
\* are and are not goto-case targets, try/catch statements with several
\* catches, try/finally statements with an empty body or cleanup, and a
\* nested function followed by a sibling.
MappingBodies ==
  {<<If(Exp, Plain, Null), Same(<<1, 1>>)>>,
   <<Loop("WhileStatement", Block(<<If(Exp, Plain, Null)>>)), Same(<<1, 1>>)>>,
   <<Switch(<<Case("CaseStatement", TRUE, Plain)>>), Same(<<1, 1, 2, 1>>)>>,
   <<TryCatch(MaxCatches, Plain), Same(<<1, 1>>)>>,
   <<Node("FuncDeclaration", <<Block(<<If(Exp, Plain, Null)>>)>>),
     If(Exp, Plain, Null)>>}
  \cup {<<Switch(<<Case("CaseStatement", g1, Plain),
                   Case("DefaultStatement", g2,
                        Jump("GotoCaseStatement", <<>>))>>)>> :
          g1 \in BOOLEAN, g2 \in BOOLEAN}
  \cup {<<TryCatch(n, h)>> : n \in 1..MaxCatches,
                             h \in {Plain, Block(<<Return>>)}}
  \cup {<<Node("TryFinallyStatement", <<b, f>>)>> :
          b \in {Null, Plain}, f \in {Null, Plain}}

\* A function declared inside the function: the declaration is an
\* expression statement of the enclosing body.
NestedFunction(statements) ==
  Node("ExpStatement",
       <<Node("DeclarationExp",
              <<Node("FuncDeclaration", <<Block(statements)>>)>>)>>)

\* Functions with a nested function that has flow-significant nodes of its
\* own, as the first statement of the body and inside a loop, followed by
\* statements of the enclosing function.
NestedBodies ==
  {<<NestedFunction(<<Label(Plain), If(Exp, Plain, Null)>>),
     Loop("DoStatement", Plain)>>,
   <<Loop("WhileStatement",
          Block(<<NestedFunction(<<Loop("ForStatement", Plain)>>),
                  If(Exp, Plain, Null)>>)),
     Label(Plain)>>}

\* An abrupt exit of each kind followed in sequence by a plain statement or
\* by a label: return, throw and goto in the function body, break and
\* continue in a loop, goto case and goto default in a case of a switch.
AbruptBodies ==
  LET Next2 == {Plain, Label(Plain)}
  IN  {<<x, n>> : x \in {Return, Node("ThrowStatement", <<Exp>>),
                         Jump("GotoStatement", <<>>)},
                  n \in Next2}
      \cup {<<Loop("WhileStatement", Block(<<Jump(j, <<>>), n>>))>> :
              j \in {"BreakStatement", "ContinueStatement"}, n \in Next2}
      \cup {<<Switch(<<Case("CaseStatement", FALSE,
                            Block(<<Jump(j, <<>>), n>>))>>)>> :
              j \in {"GotoCaseStatement", "GotoDefaultStatement"},
              n \in Next2}

\* Breaks and continues that name a label: from a switch inside a labelled
\* loop that is itself inside a loop, from a loop inside a labelled switch,
\* and from the body of the labelled loop itself.
LabelledJumps ==
  {<<Loop("WhileStatement",
          Block(<<Label(Loop("ForStatement",
                  Block(<<Switch(<<Case("CaseStatement", FALSE,
                                        Jump(j, <<1, 1, 2, 1>>))>>)>>)))>>))>> :
     j \in {"BreakStatement", "ContinueStatement"}}
  \cup {<<Label(Switch(<<Case("CaseStatement", FALSE,
            Loop("WhileStatement",
                 Block(<<Jump("BreakStatement", <<1, 1>>)>>)))>>))>>}
  \cup {<<Label(Loop(k, Block(<<If(Exp, Jump("BreakStatement", <<1, 1>>), Null),
                                Jump("ContinueStatement", <<1, 1>>)>>)))>> :
          k \in LoopKinds}

\* A loop around a switch around a switch that continues the loop; the
\* outer case then breaks.
NestedSwitches ==
  {<<Loop("WhileStatement",
          Block(<<Switch(<<Case("CaseStatement", FALSE,
                    Block(<<Switch(<<Case("CaseStatement", FALSE,
                                          Jump("ContinueStatement", <<>>))>>),
                            Jump("BreakStatement", <<>>)>>))>>)>>))>>}

Bodies ==
  {<<s>> : s \in IfStatements \cup LoopStatements \cup LabelledLoops}
  \cup {<<If(Exp, t, Null), Plain>> : t \in {Plain, Block(<<Plain, Return>>)}}
  \cup {<<Return, Loop(k, Plain)>> : k \in LoopKinds}
  \cup MappingBodies
  \cup NestedBodies
  \cup AbruptBodies
  \cup LabelledJumps
  \cup NestedSwitches

Functions == {Node("FuncDeclaration", <<Block(b)>>) : b \in Bodies}

\* The values the profile store holds for one function are drawn from one
\* of these sets.
Palettes ==
  {{Zero64, ToU64(60), ToU64(100)}, {Zero64, ToU64(7), ToU64(10)}}

Profiles(n) == UNION {[1..n -> P] : P \in Palettes}

\* The error codes of getFunctionCounts; "success" is no error.
ErrorCodes ==
  {"success", "unknown_function", "hash_mismatch", "malformed", "io_error"}

\* What a failing getFunctionCounts may have written into RegionCounts.
PartialCounts == {<<>>, <<ToU64(7)>>}

\* The loop counts a caller gives createProfileWeightsWhileLoop.
LoopCounts == {Zero64, ToU64(10), ToU64(100)}

RECURSIVE Descendants(_)
\* The nodes of the function: the paths from the root that end in a node,
\* not entering a nested function.
Descendants(path) ==
  LET n == NodeAt(fn, path)
  IN  IF n.kind \in {"Null", "Same"}
         \/ (n.kind = "FuncDeclaration" /\ path # <<>>)
      THEN {}
      ELSE {path} \cup
           UNION {Descendants(Append(path, i)) : i \in DOMAIN n.kids}

StatementsOf(kinds) == {p \in Descendants(<<>>) : NodeAt(fn, p).kind \in kinds}

(***************************************************************************)
(* The pipeline: assignRegionCounters on one function, then the weight     *)
(* queries of code generation.                                             *)
(***************************************************************************)
Init ==
  /\ HashIdle
  /\ QueryIdle
  /\ fn \in Functions
  /\ genInstrProf \in BOOLEAN
  /\ PGOReader \in BOOLEAN
  /\ ~(genInstrProf /\ PGOReader)
  /\ pc = "assignRegionCounters"
  /\ RegionCounts \in (IF PGOReader THEN PartialCounts ELSE {<<>>})
  /\ NewCodeGenPGO

\* assignRegionCounters when neither instrumenting nor reading a profile
ReturnWithoutPGO ==
  /\ pc = "assignRegionCounters"
  /\ ~genInstrProf /\ ~PGOReader
  /\ pc' = "done"
  /\ UNCHANGED <<hashVars, queryVars, fn, genInstrProf, PGOReader,
                 RegionCounterMap, NumRegionCounters, FunctionHash,
                 RegionCounts, StmtCountMap, EntryCount, lookup, warnings,
                 failed, walk>>

\* assignRegionCounters up to and including mapRegionCounters(D)
MapRegionCounters ==
  /\ pc = "assignRegionCounters"
  /\ genInstrProf \/ PGOReader
  /\ LET mapped == mapRegionCounters
     IN  /\ RegionCounterMap' = mapped.RegionCounterMap
         /\ NumRegionCounters' = mapped.NumRegionCounters
         /\ FunctionHash' = mapped.FunctionHash
         /\ failed' = failed \cup mapped.failed
  /\ pc' = IF PGOReader THEN "loadRegionCounts" ELSE "done"
  /\ UNCHANGED <<hashVars, queryVars, fn, genInstrProf, PGOReader,
                 RegionCounts, StmtCountMap, EntryCount, lookup, warnings,
                 walk>>

\* loadRegionCounts(PGOReader, D)
LoadRegionCounts ==
  /\ pc = "loadRegionCounts"
  /\ \E EC \in ErrorCodes :
       \E Counts \in (IF EC = "success" THEN Profiles(NumRegionCounters)
                      ELSE PartialCounts) :
         LET loaded == loadRegionCounts(EC, Counts)
         IN  /\ RegionCounts' = loaded.RegionCounts
             /\ warnings' = warnings \o loaded.warnings
             /\ lookup' = [outcome |-> EC, data |-> Counts,
                           before |-> IF EC = "success" THEN <<>>
                                      ELSE RegionCounts]
  /\ pc' = "computeRegionCounts"
  /\ UNCHANGED <<hashVars, queryVars, fn, genInstrProf, PGOReader,
                 RegionCounterMap, NumRegionCounters, FunctionHash,
                 StmtCountMap, EntryCount, failed, walk>>

\* A mutation of the counting step: computeRegionCounts(D) is run only
\* after a lookup that succeeded.
ComputeRegionCounts_OnlyAfterSuccess ==
  /\ pc = "computeRegionCounts"
  /\ IF lookup.outcome = "success"
     THEN LET Walker == computeRegionCounts
          IN  /\ StmtCountMap' = Walker.CountMap
              /\ failed' = failed \cup Walker.failed
              /\ walk' = [order |-> Walker.order, wrote |-> Walker.wrote,
                          pre |-> Walker.pre, post |-> Walker.post,
                          frames |-> Walker.frames]
              /\ EntryCount' = getRegionCount(NULL)
     ELSE UNCHANGED <<StmtCountMap, failed, walk, EntryCount>>
  /\ pc' = "done"
  /\ UNCHANGED <<hashVars, queryVars, fn, genInstrProf, PGOReader,
                 RegionCounterMap, NumRegionCounters, FunctionHash,
                 RegionCounts, lookup, warnings>>

\* computeRegionCounts(D); applyFunctionAttributes(fn)
ComputeRegionCounts ==
  /\ pc = "computeRegionCounts"
  /\ LET Walker == computeRegionCounts
     IN  /\ StmtCountMap' = Walker.CountMap
         /\ failed' = failed \cup Walker.failed
         /\ walk' = [order |-> Walker.order, wrote |-> Walker.wrote,
                     pre |-> Walker.pre, post |-> Walker.post,
                     frames |-> Walker.frames]
  /\ EntryCount' = IF haveRegionCounts THEN getRegionCount(NULL)
                   ELSE EntryCount
  /\ pc' = "done"
  /\ UNCHANGED <<hashVars, queryVars, fn, genInstrProf, PGOReader,
                 RegionCounterMap, NumRegionCounters, FunctionHash,
                 RegionCounts, lookup, warnings>>

\* A weight query: the result, and any assertion it failed.
Answer(form, stmt, counts, weights) ==
  /\ query' = [form |-> form, counts |-> counts, stmt |-> stmt]
  /\ result' = weights
  /\ UNCHANGED <<hashVars, pgoVars>>

\* createProfileWeightsWhileLoop(Cond, LoopCount) for the condition of a
\* while or do loop
CreateProfileWeightsWhileLoop ==
  /\ pc = "done" /\ query = NoQuery
  /\ \E p \in StatementsOf({"WhileStatement", "DoStatement"}) :
       \E LoopCount \in LoopCounts :
         LET Cond == Ref(Append(p, IF NodeAt(fn, p).kind = "WhileStatement"
                                   THEN 1 ELSE 2))
         IN  Answer("WhileLoop", Cond, <<LoopCount>>,
                    createProfileWeightsWhileLoop(Cond, LoopCount))

\* createProfileWeightsForLoop(stmt)
CreateProfileWeightsForLoop ==
  /\ pc = "done" /\ query = NoQuery
  /\ \E p \in StatementsOf({"ForStatement"}) :
       Answer("ForLoop", Ptr(p), <<>>,
              createProfileWeightsForLoop(Ptr(p), Ref(Append(p, 2))))

\* createProfileWeightsForeach(stmt)
CreateProfileWeightsForeach ==
  /\ pc = "done" /\ query = NoQuery
  /\ \E p \in StatementsOf({"ForeachStatement"}) :
       Answer("Foreach", Ptr(p), <<>>, createProfileWeightsForeach(Ptr(p)))

\* createProfileWeightsForeachRange(stmt)
CreateProfileWeightsForeachRange ==
  /\ pc = "done" /\ query = NoQuery
  /\ \E p \in StatementsOf({"ForeachRangeStatement"}) :
       Answer("ForeachRange", Ptr(p), <<>>,
              createProfileWeightsForeachRange(Ptr(p)))

Next ==
  \/ ReturnWithoutPGO
  \/ MapRegionCounters
  \/ LoadRegionCounts
  \/ ComputeRegionCounts
  \/ CreateProfileWeightsWhileLoop
  \/ CreateProfileWeightsForLoop
  \/ CreateProfileWeightsForeach
  \/ CreateProfileWeightsForeachRange

Spec == Init /\ [][Next]_vars

(***************************************************************************)
(* Claims about the mapping pass                                           *)
(***************************************************************************)
Mapped == pc \in {"loadRegionCounts", "computeRegionCounts", "done"}
          /\ (genInstrProf \/ PGOReader)

\* C1: after the mapping pass NumRegionCounters is the number of entries of
\* RegionCounterMap, the indices assigned are exactly 0..NumRegionCounters-1,
\* no index belongs to two keys, and neither assertion of mapRegionCounters
\* fails; also for nodes reached twice, goto-case targets, several catches
\* and try/finally statements with an empty part.
C1_CountersAreDense ==
  Mapped =>
    /\ NumRegionCounters = Cardinality(DOMAIN RegionCounterMap)
    /\ {RegionCounterMap[k] : k \in DOMAIN RegionCounterMap}
         = 0..(NumRegionCounters - 1)
    /\ \A j, k \in DOMAIN RegionCounterMap :
         RegionCounterMap[j] = RegionCounterMap[k] => j = k
    /\ failed = {}

\* A goto-case target reached twice: counters 0..3 for the function, the
\* switch, and the two slots of the case.
C1_Witness ==
  /\ Mapped
  /\ fn.kids[1].kids =
       <<Switch(<<Case("CaseStatement", TRUE, Plain)>>), Same(<<1, 1, 2, 1>>)>>
  /\ NumRegionCounters = 4
  /\ RegionCounterMap[getCounterPtr(Ptr(<<1, 1, 2, 1>>), 1)] = 3

(***************************************************************************)
(* Claims about the counting pass                                          *)
(***************************************************************************)
\* The statements of the given kinds whose handler ran.
Visited(kinds) == {p \in StatementsOf(kinds) : Ptr(p) \in DOMAIN walk.post}

\* The count on entry to and on exit from the handler of the node at path.
CountBefore(path) == walk.pre[Ref(path)].CurrentCount

CountAfter(path) == walk.post[Ref(path)].CurrentCount

KindsUnder(path) == {NodeAt(fn, q).kind : q \in Descendants(path)}

\* return, throw, goto, break, continue
AbruptExits ==
  {"ReturnStatement", "ThrowStatement", "GotoStatement",
   "GotoDefaultStatement", "GotoCaseStatement", "BreakStatement",
   "ContinueStatement"}

\* The statements whose continuation count is their own raw counter.
OwnContinuation ==
  {"LabelStatement", "SwitchStatement", "CaseStatement", "DefaultStatement",
   "TryCatchStatement", "TryFinallyStatement"}

\* What C4 says of the if at path p but for its last part: then recorded
\* with T, else P - T, exit = thenExit + elseExit.
IfFlow(p) ==
  LET S == Ptr(p)
      ifbody == Append(p, 2)
      elsebody == Append(p, 3)
      P == CountBefore(p)
      T == getRegionCount(S)
  IN  /\ walk.wrote[<<S, Ref(ifbody)>>] = T
      /\ CountBefore(ifbody) = T
      /\ IF Ref(elsebody) # NULL
         THEN /\ walk.wrote[<<S, Ref(elsebody)>>] = Sub64(P, T)
              /\ CountBefore(elsebody) = Sub64(P, T)
              /\ CountAfter(p) = Add64(CountAfter(ifbody), CountAfter(elsebody))
         ELSE CountAfter(p) = Add64(CountAfter(ifbody), Sub64(P, T))

\* C4 as stated: for an if reached with P whose raw counter is T <= P, then
\* is recorded with T, else is P - T, exit = thenExit + elseExit, and the
\* exit of an if without else whose then-body has no abrupt exit is P.
C4_AsStated ==
  \A p \in Visited({"IfStatement"}) :
    Leq64(getRegionCount(Ptr(p)), CountBefore(p)) =>
      /\ IfFlow(p)
      /\ (Ref(Append(p, 3)) = NULL
          /\ KindsUnder(Append(p, 2)) \cap AbruptExits = {})
           => CountAfter(p) = CountBefore(p)

\* C4 amended: as stated, but the exit of an if without else is P when the
\* then-body has no abrupt exit and no label, switch, case, default or try
\* statement either.
C4_IfFlowConservation ==
  \A p \in Visited({"IfStatement"}) :
    Leq64(getRegionCount(Ptr(p)), CountBefore(p)) =>
      /\ IfFlow(p)
      /\ (Ref(Append(p, 3)) = NULL
          /\ KindsUnder(Append(p, 2)) \cap (AbruptExits \cup OwnContinuation) = {})
           => CountAfter(p) = CountBefore(p)

\* Scenario A: a single if without else, P = 100, T = 60.
C4_Witness ==
  /\ pc = "done"
  /\ fn.kids[1].kids = <<If(Exp, Plain, Null)>>
  /\ RegionCounts = <<ToU64(100), ToU64(60)>>
  /\ StmtCountMap[Ptr(<<1, 1, 2>>)] = ToU64(60)
  /\ CountBefore(<<1, 1>>) = ToU64(100)
  /\ CountAfter(<<1, 1>>) = ToU64(100)

\* The first position of x in seq, 0 if there is none.
Position(seq, x) ==
  LET at == {i \in DOMAIN seq : seq[i] = x}
  IN  IF at = {} THEN 0 ELSE CHOOSE i \in at : \A j \in at : i <= j

\* The count a loop is reached with: the count after its init, aggregate or
\* bounds, which the handler visits first.
ParentCountOf(p) ==
  LET kind == NodeAt(fn, p).kind
  IN  CASE kind = "WhileStatement" -> CountBefore(p)
        [] kind = "ForStatement" ->
             IF Ref(Append(p, 1)) = NULL THEN CountBefore(p)
             ELSE CountAfter(Append(p, 1))
        [] kind = "ForeachStatement" -> CountAfter(Append(p, 1))
        [] kind = "ForeachRangeStatement" -> CountAfter(Append(p, 2))

BodyOf(p) ==
  LET kind == NodeAt(fn, p).kind
  IN  CASE kind = "WhileStatement" -> Append(p, 2)
        [] kind = "ForStatement" -> Append(p, 4)
        [] kind = "ForeachStatement" -> Append(p, 2)
        [] kind = "ForeachRangeStatement" -> Append(p, 3)

\* The condition node of a while or for loop, NULL if it has none.
ConditionOf(p) ==
  LET kind == NodeAt(fn, p).kind
  IN  CASE kind = "WhileStatement" -> Ref(Append(p, 1))
        [] kind = "ForStatement" -> Ref(Append(p, 2))
        [] OTHER -> NULL

\* C5: for every while, for, foreach and foreach-range loop the body is
\* visited before the condition and recorded (and entered) with the raw
\* counter BodyCount of the loop; the condition, or slot 1 of the loop when
\* it has no condition node, is recorded with CondCount = ParentCount +
\* BackedgeCount + ContinueCount, the count at the end of the body and the
\* continue count of the frame the loop pushed; the count after the loop is
\* BreakCount + CondCount - BodyCount.
C5_LoopFlow ==
  \A p \in Visited({"WhileStatement", "ForStatement", "ForeachStatement",
                    "ForeachRangeStatement"}) :
    LET S == Ptr(p)
        BodyCount == getRegionCount(S)
        BC == walk.frames[S]
        CondCount == Add64(Add64(ParentCountOf(p), CountAfter(BodyOf(p))),
                           BC.ContinueCount)
        key == IF ConditionOf(p) # NULL THEN ConditionOf(p)
               ELSE getCounterPtr(S, 1)
    IN  /\ walk.wrote[<<S, Ref(BodyOf(p))>>] = BodyCount
        /\ CountBefore(BodyOf(p)) = BodyCount
        /\ walk.pre[Ref(BodyOf(p))].BreakContinueStack
             = Append(walk.pre[S].BreakContinueStack, BreakContinue)
        /\ ConditionOf(p) # NULL =>
             /\ Position(walk.order, Ref(BodyOf(p)))
                  < Position(walk.order, ConditionOf(p))
             /\ walk.pre[ConditionOf(p)].CurrentCount = CondCount
        /\ walk.wrote[<<S, key>>] = CondCount
        /\ StmtCountMap[key] = CondCount
        /\ CountAfter(p) = Sub64(Add64(BC.BreakCount, CondCount), BodyCount)
        /\ Len(walk.post[S].BreakContinueStack)
             = Len(walk.pre[S].BreakContinueStack)

\* A for loop reached with 7 whose body, entered 10 times, continues 7
\* times and breaks 3 times: the condition is entered 7 + 0 + 7 times and
\* 3 + 14 - 10 flows out.
C5_Witness ==
  /\ pc = "done"
  /\ fn.kids[1].kids =
       <<Loop("ForStatement",
              Block(<<If(Exp, Jump("ContinueStatement", <<>>),
                         Jump("BreakStatement", <<>>))>>))>>
  /\ RegionCounts = <<ToU64(7), ToU64(10), ToU64(7)>>
  /\ walk.frames[Ptr(<<1, 1>>)] =
       [BreakCount |-> ToU64(3), ContinueCount |-> ToU64(7)]
  /\ StmtCountMap[Ptr(<<1, 1, 2>>)] = ToU64(14)
  /\ CountAfter(<<1, 1>>) = ToU64(7)

(***************************************************************************)
(* Claims about the loop weight adapters and the lookup                    *)
(***************************************************************************)
LoopForms == {"WhileLoop", "ForLoop", "Foreach", "ForeachRange"}

\* The loop count L of the weight query served: the argument of the while
\* adapter, the raw counter of the loop for the others.
QueryLoopCount ==
  IF query.form = "WhileLoop" THEN query.counts[1]
  ELSE getRegionCount(query.stmt)

\* The condition count C of the weight query served: the count recorded on
\* the condition, or on slot 1 of a loop without a condition node.
QueryCondCount ==
  LET key == CASE query.form = "WhileLoop" -> query.stmt
               [] query.form = "ForLoop" ->
                    IF Ref(Append(query.stmt.node, 2)) # NULL
                    THEN Ref(Append(query.stmt.node, 2))
                    ELSE getCounterPtr(query.stmt, 1)
               [] OTHER -> getCounterPtr(query.stmt, 1)
  IN  StmtCountMap[key]

\* The pair (L, max(C, L) - L), the second component written without a
\* subtraction that could underflow.
LoopPair(L, C) == <<L, IF Less64(C, L) THEN Zero64 ELSE Sub64(C, L)>>

\* C8 as stated: with counts loaded, every adapter returns the weights of
\* the pair (L, max(C, L) - L) for every L and C.
C8_AsStated ==
  (haveRegionCounts /\ query.form \in LoopForms) =>
    LET pair == LoopPair(QueryLoopCount, QueryCondCount)
    IN  /\ result.failed = {}
        /\ IF AllZero(pair) THEN result.isNull
           ELSE ~result.isNull /\ SmoothedWeights(pair, result.weights)

\* C8 amended: with counts loaded, every adapter returns no weights when
\* C = 0, and the weights of the pair (L, max(C, L) - L) for every L and
\* every other C.
C8_LoopWeights ==
  (haveRegionCounts /\ query.form \in LoopForms) =>
    LET pair == LoopPair(QueryLoopCount, QueryCondCount)
    IN  /\ result.failed = {}
        /\ IF QueryCondCount = Zero64 THEN result.isNull
           ELSE ~result.isNull /\ SmoothedWeights(pair, result.weights)

\* L = 10, C = 7: the weights of (10, 0).
C8_Witness ==
  /\ haveRegionCounts
  /\ query.form = "WhileLoop"
  /\ QueryLoopCount = ToU64(10)
  /\ QueryCondCount = ToU64(7)
  /\ result.weights = <<ToU64(11), One64>>

\* The warning names the function.
NamesFunction(w) == \E i \in DOMAIN w.args : w.args[i] = "foo"

\* The warning states a control-flow hash mismatch.
StatesHashMismatch(w) ==
  \E i \in DOMAIN w.format : w.format[i] = "control-flow hash mismatch"

\* The warning reports an error loading the profile data.
ReportsLoadError(w) ==
  \E i \in DOMAIN w.format :
    w.format[i] = "Error loading profile data for function '%s' ('%s')"

\* C9: each outcome of the lookup has its own diagnostic: no warning for
\* success and for a function not found, exactly one warning naming the
\* function for each of the others, which states a hash mismatch for a
\* hash mismatch, does not for malformed data, and reports a load error for
\* any other error.
C9_EachOutcomeItsOwnDiagnostic ==
  lookup.outcome # "none" =>
    IF lookup.outcome \in {"success", "unknown_function"}
    THEN warnings = <<>>
    ELSE /\ Len(warnings) = 1
         /\ NamesFunction(warnings[1])
         /\ lookup.outcome = "hash_mismatch" =>
              StatesHashMismatch(warnings[1])
         /\ lookup.outcome = "malformed" =>
              /\ ~StatesHashMismatch(warnings[1])
              /\ ~ReportsLoadError(warnings[1])
         /\ lookup.outcome = "io_error" => ReportsLoadError(warnings[1])

\* C10: after a lookup that failed RegionCounts is empty, whatever the
\* store wrote and whatever was left from before, and every loop weight
\* query returns no weights.
C10_FailedLookupLeavesNoCounts ==
  lookup.outcome \notin {"none", "success"} =>
    /\ RegionCounts = <<>>
    /\ query.form \in LoopForms => result = nullptr

\* A hash mismatch after the store wrote counts over counts left from
\* before, and a for loop asking for its weights.
C10_Witness ==
  /\ lookup.outcome = "hash_mismatch"
  /\ lookup.data # <<>>
  /\ lookup.before # <<>>
  /\ RegionCounts = <<>>
  /\ query.form = "ForLoop"
  /\ result = nullptr

(***************************************************************************)
(* Claims about the order of the passes                                    *)
(***************************************************************************)
\* StmtCountMap has been built: computeRegionCounts stores the count of the
\* function body first thing.
CountMapBuilt == StmtCountMap # <<>>

\* C11 as stated: with a profile reader the mapping pass completes before
\* the lookup, the lookup is made once, and the counting pass runs only
\* after a lookup that succeeded: after a failed lookup no CountMap is built.
C11_AsStated ==
  /\ lookup.outcome # "none" =>
       RegionCounterMap # <<>> /\ FunctionHash # NotFinalized
  /\ (pc = "done" /\ PGOReader) => lookup.outcome # "none"
  /\ CountMapBuilt => lookup.outcome = "success"

\* The state part of C11 amended.
CountingFollowsTheLookup ==
  /\ lookup.outcome # "none" =>
       RegionCounterMap # <<>> /\ FunctionHash # NotFinalized
  /\ CountMapBuilt => lookup.outcome # "none"
  /\ (pc = "done" /\ PGOReader) =>
       /\ lookup.outcome # "none"
       /\ CountMapBuilt
       /\ Ref(<<1>>) \in DOMAIN StmtCountMap

\* C11 amended: with a profile reader the mapping pass completes before the
\* lookup, the lookup is made once and never redone, and the counting pass
\* runs after the lookup whatever its outcome: after a failed lookup the
\* CountMap is built all the same, with an entry for the function body.
C11_CountingFollowsTheLookup ==
  /\ []CountingFollowsTheLookup
  /\ [][lookup # NoLookup => lookup' = lookup]_vars

\* A hash mismatch, and a CountMap built for a loop with the counts of the
\* body and the condition both 0.
C11_Witness ==
  /\ pc = "done"
  /\ lookup.outcome = "hash_mismatch"
  /\ fn.kids[1].kids = <<Loop("WhileStatement", Plain)>>
  /\ StmtCountMap[Ptr(<<1, 1, 2>>)] = Zero64
  /\ StmtCountMap[Ptr(<<1, 1, 1>>)] = Zero64

(***************************************************************************)
(* Claims about the two maps                                               *)
(***************************************************************************)
\* The counting pass has run.
Counted == pc = "done" /\ CountMapBuilt

\* The handler of some node stored the count of key.
StoredByHandler(key) ==
  \E w \in DOMAIN walk.wrote : w[2] = key

\* C12 as stated: after the counting pass the domain of CountMap is a
\* strict superset of the domain of CounterMap.
C12_AsStated ==
  Counted =>
    /\ DOMAIN RegionCounterMap \subseteq DOMAIN StmtCountMap
    /\ DOMAIN RegionCounterMap # DOMAIN StmtCountMap

\* C12 amended: of the keys that own a counter, the function body, every
\* label, case and default statement and slot 1 of a goto-case target have a
\* CountMap entry; a catch has none; an if, loop, switch, try, ?:, && or ||
\* has one exactly when it was reached with the record-next flag armed or
\* the handler of its parent stored it as a body, condition or branch.
C12_CountMapEntriesOfCounterOwners ==
  Counted =>
    \A key \in DOMAIN RegionCounterMap :
      LET kind == NodeAt(fn, key.node).kind
      IN  IF \/ key.off = 1
             \/ key = Ref(<<1>>)
             \/ kind \in {"LabelStatement", "CaseStatement", "DefaultStatement"}
          THEN key \in DOMAIN StmtCountMap
          ELSE IF kind = "Catch"
          THEN key \notin DOMAIN StmtCountMap
          ELSE key \in DOMAIN StmtCountMap
                 <=> \/ walk.pre[key].RecordNextStmtCount
                     \/ StoredByHandler(key)

\* An if that is the first statement of the function: it owns counter 1 and
\* has no CountMap entry, while the function body and the then-body have.
C12_Witness ==
  /\ Counted
  /\ fn.kids[1].kids = <<If(Exp, Plain, Null), Plain>>
  /\ RegionCounterMap[Ptr(<<1, 1>>)] = 1
  /\ Ptr(<<1, 1>>) \notin DOMAIN StmtCountMap
  /\ Ptr(<<1>>) \in DOMAIN StmtCountMap
  /\ Ptr(<<1, 1, 2>>) \in DOMAIN StmtCountMap

(***************************************************************************)
(* Claims about nested functions                                           *)
(***************************************************************************)
RECURSIVE AllPaths(_)
\* Every node of the tree, those of nested functions included.
AllPaths(path) ==
  LET n == NodeAt(fn, path)
  IN  IF n.kind \in {"Null", "Same"} THEN {}
      ELSE {path} \cup UNION {AllPaths(Append(path, i)) : i \in DOMAIN n.kids}

\* The nested function declarations and the nodes inside them.
InsideNested == AllPaths(<<>>) \ Descendants(<<>>)

\* The kinds of node that own a counter and contribute one token.
OneCounterKinds ==
  {"IfStatement", "WhileStatement", "DoStatement", "ForStatement",
   "ForeachStatement", "ForeachRangeStatement", "LabelStatement",
   "SwitchStatement", "CondExp", "AndAndExp", "OrOrExp"}

RECURSIVE OwnTokens(_)
RECURSIVE OwnTokensOfKids(_, _)
\* The tokens of the flow-significant nodes of the enclosing function at and
\* below path, in the order of the walk, not entering a nested function.
OwnTokens(path) ==
  LET n == NodeAt(fn, path)
  IN  IF n.kind = "Null" \/ (n.kind = "FuncDeclaration" /\ path # <<>>)
      THEN <<>>
      ELSE (IF n.kind \in OneCounterKinds THEN <<HashTypeOf(n.kind)>>
            ELSE <<>>)
           \o OwnTokensOfKids(path, 1)

OwnTokensOfKids(path, i) ==
  IF i > Len(NodeAt(fn, path).kids) THEN <<>>
  ELSE OwnTokens(Append(path, i)) \o OwnTokensOfKids(path, i + 1)

\* C13: the function body has counter 0; when the function has a nested
\* function declaration, no node inside the nested function has a counter
\* and none contributes a token to the hash, while every flow-significant
\* node of the enclosing function, also after the nested declaration, has
\* its counter and its token.
C13_NestedFunctionIsSkipped ==
  Mapped =>
    /\ RegionCounterMap[Ref(<<1>>)] = 0
    /\ InsideNested # {} =>
         /\ \A p \in InsideNested : \A off \in {0, 1} :
              getCounterPtr(Ptr(p), off) \notin DOMAIN RegionCounterMap
         /\ \A p \in StatementsOf(OneCounterKinds) :
              Ptr(p) \in DOMAIN RegionCounterMap
         /\ FunctionHash = finalize(combineAll(NewPGOHash, OwnTokens(<<>>)))
         /\ NumRegionCounters = 1 + Len(OwnTokens(<<>>))

\* A nested function with a for loop inside a while loop: the while, the if
\* after the nested function and the label after the loop have counters 1,
\* 2 and 3, the for loop of the nested function has none.
C13_Witness ==
  /\ Mapped
  /\ fn.kids[1].kids =
       <<Loop("WhileStatement",
              Block(<<NestedFunction(<<Loop("ForStatement", Plain)>>),
                      If(Exp, Plain, Null)>>)),
         Label(Plain)>>
  /\ RegionCounterMap[Ptr(<<1, 1, 2, 2>>)] = 2
  /\ RegionCounterMap[Ptr(<<1, 2>>)] = 3
  /\ Ptr(<<1, 1, 2, 1, 1, 1, 1, 1>>) \notin DOMAIN RegionCounterMap
  /\ NodeAt(fn, <<1, 1, 2, 1, 1, 1, 1, 1>>).kind = "ForStatement"
  /\ Unpack(FunctionHash.word) = <<WhileStmt, IfStmt, LabelStmt>>

(***************************************************************************)
(* Claims about abrupt exits, break and continue                           *)
(***************************************************************************)
\* The statement that follows the one at path in its block, <<>> if the
\* node at path is not in a block or is the last of it.
NextInSequence(path) ==
  IF path = <<>> THEN <<>>
  ELSE
    LET parent == SubSeq(path, 1, Len(path) - 1)
        i == path[Len(path)]
    IN  IF /\ NodeAt(fn, parent).kind = "CompoundStatement"
           /\ i < Len(NodeAt(fn, parent).kids)
        THEN Append(parent, i + 1)
        ELSE <<>>

\* C14: after a return, throw, goto, goto case, goto default, break or
\* continue statement CurrentCount is 0 and the record-next flag is armed; a
\* plain statement that follows in sequence is recorded with count 0 and
\* leaves the flag cleared; a label that follows instead is recorded with
\* its own raw counter, and its statement is entered with that count and the
\* flag cleared, so it is not recorded.
C14_AbruptExitArmsTheFlag ==
  \A p \in Visited(AbruptExits) :
    LET q == NextInSequence(p)
        kind == NodeAt(fn, q).kind
    IN  /\ CountAfter(p) = Zero64
        /\ walk.post[Ptr(p)].RecordNextStmtCount
        /\ (q # <<>> /\ kind = "ExpStatement") =>
             /\ walk.pre[Ptr(q)] = walk.post[Ptr(p)]
             /\ StmtCountMap[Ptr(q)] = Zero64
             /\ ~walk.post[Ptr(q)].RecordNextStmtCount
             /\ CountAfter(q) = Zero64
        /\ (q # <<>> /\ kind = "LabelStatement") =>
             /\ walk.pre[Ptr(q)] = walk.post[Ptr(p)]
             /\ StmtCountMap[Ptr(q)] = getRegionCount(Ptr(q))
             /\ CountBefore(Append(q, 1)) = getRegionCount(Ptr(q))
             /\ ~walk.pre[Ptr(Append(q, 1))].RecordNextStmtCount
             /\ Ptr(Append(q, 1)) \notin DOMAIN StmtCountMap

\* A goto default reached with the count 60 of its case, followed by a
\* label whose raw counter is 100: the label restarts the count from 100.
C14_Witness ==
  /\ Counted
  /\ fn.kids[1].kids =
       <<Switch(<<Case("CaseStatement", FALSE,
                       Block(<<Jump("GotoDefaultStatement", <<>>),
                               Label(Plain)>>))>>)>>
  /\ CountBefore(<<1, 1, 2, 1, 1, 1>>) = ToU64(60)
  /\ CountAfter(<<1, 1, 2, 1, 1, 1>>) = Zero64
  /\ walk.post[Ptr(<<1, 1, 2, 1, 1, 1>>)].RecordNextStmtCount
  /\ StmtCountMap[Ptr(<<1, 1, 2, 1, 1, 2>>)] = ToU64(100)
  /\ CountBefore(<<1, 1, 2, 1, 1, 2, 1>>) = ToU64(100)

\* The stack after CurrentCount was added to the named count of frame i.
AddedToFrame(stack, i, BreakCount, ContinueCount) ==
  [stack EXCEPT ![i] = [BreakCount |-> Add64(@.BreakCount, BreakCount),
                        ContinueCount |-> Add64(@.ContinueCount, ContinueCount)]]

\* The index in BreakContinueStack of the frame that the loop or switch a
\* label is attached to pushes: one above the stack the construct is entered
\* with.
FrameOfLabelled(label) ==
  Len(walk.pre[Ptr(Append(label, 1))].BreakContinueStack) + 1

\* C15: no assertion of the break and continue handlers fails; a break or
\* continue that names a label adds CurrentCount to the BreakCount or
\* ContinueCount of the frame of the labelled loop or switch, which is on the
\* stack, and leaves every other frame and count as it was; one without a
\* label adds to the innermost frame only.
C15_LabelledJumpFindsItsFrame ==
  Counted =>
    /\ failed = {}
    /\ \A p \in Visited({"BreakStatement", "ContinueStatement"}) :
         LET S == Ptr(p)
             target == NodeAt(fn, p).target
             before == walk.pre[S].BreakContinueStack
             i == IF target = <<>> THEN Len(before)
                  ELSE FrameOfLabelled(target)
             isBreak == NodeAt(fn, p).kind = "BreakStatement"
         IN  /\ 1 <= i /\ i <= Len(before)
             /\ walk.post[S].BreakContinueStack =
                  AddedToFrame(before, i,
                    IF isBreak THEN CountBefore(p) ELSE Zero64,
                    IF isBreak THEN Zero64 ELSE CountBefore(p))

\* continue L from a switch in the for loop labelled L, itself in a while
\* loop: the 60 arrivals at the case are added to the ContinueCount of the
\* second of three frames.
C15_Witness ==
  /\ Counted
  /\ fn.kids[1].kids =
       <<Loop("WhileStatement",
              Block(<<Label(Loop("ForStatement",
                      Block(<<Switch(<<Case("CaseStatement", FALSE,
                                Jump("ContinueStatement",
                                     <<1, 1, 2, 1>>))>>)>>)))>>))>>
  /\ walk.post[Ptr(<<1, 1, 2, 1, 1, 4, 1, 2, 1, 1>>)].BreakContinueStack =
       <<BreakContinue,
         [BreakCount |-> Zero64, ContinueCount |-> ToU64(60)],
         BreakContinue>>

(***************************************************************************)
(* Claims about switch statements and do loops                             *)
(***************************************************************************)
\* C16: the body of a switch is entered with count 0 and the count after
\* the switch is its own raw counter; a case or default is recorded with
\* its own raw counter; the count its statement is entered with is the
\* count flowing in from above plus that raw counter, or, for a goto-case
\* target, the raw counter of its slot 1 alone, which is recorded on slot 1.
C16_SwitchFlow ==
  Counted =>
    /\ \A p \in Visited({"SwitchStatement"}) :
         /\ CountBefore(Append(p, 2)) = Zero64
         /\ walk.pre[Ref(Append(p, 2))].BreakContinueStack =
              Append(walk.pre[Ptr(p)].BreakContinueStack, BreakContinue)
         /\ CountAfter(p) = getRegionCount(Ptr(p))
         /\ walk.post[Ptr(p)].RecordNextStmtCount
    /\ \A q \in Visited({"CaseStatement", "DefaultStatement"}) :
         LET S == Ptr(q)
             cntr == getCounterPtr(S, 1)
             i == q[Len(q)]
             above == Append(SubSeq(q, 1, Len(q) - 1), i - 1)
         IN  /\ walk.wrote[<<S, S>>] = getRegionCount(S)
             /\ StmtCountMap[S] = getRegionCount(S)
             /\ i > 1 => CountBefore(q) = CountAfter(above)
             /\ IF NodeAt(fn, q).gototarget
                THEN /\ CountBefore(Append(q, 1)) = getRegionCount(cntr)
                     /\ StmtCountMap[cntr] = getRegionCount(cntr)
                ELSE /\ CountBefore(Append(q, 1)) =
                          Add64(CountBefore(q), getRegionCount(S))
                     /\ cntr \notin DOMAIN StmtCountMap

\* A case with 60 arrivals that falls through into a default with 60
\* arrivals of its own: the default's statement is entered with 120, the
\* default is recorded with 60, and 100, the counter of the switch, flows
\* out.
C16_Witness ==
  /\ Counted
  /\ fn.kids[1].kids =
       <<Switch(<<Case("CaseStatement", FALSE, Plain),
                  Case("DefaultStatement", FALSE,
                       Jump("GotoCaseStatement", <<>>))>>)>>
  /\ CountAfter(<<1, 1, 2, 1>>) = ToU64(60)
  /\ StmtCountMap[Ptr(<<1, 1, 2, 2>>)] = ToU64(60)
  /\ CountBefore(<<1, 1, 2, 2, 1>>) = ToU64(120)
  /\ CountAfter(<<1, 1>>) = ToU64(100)

\* C17: when a switch pops its frame, the ContinueCount of the frame is
\* added to the frame below it if there is one, its BreakCount goes
\* nowhere, nothing else on the stack changes, and the stack is as deep
\* after the switch as before it; so the count of a continue in a switch,
\* also in a switch nested in a switch, is in the ContinueCount of the frame
\* the enclosing loop pops.
C17_SwitchFoldsContinueCount ==
  Counted =>
    \A p \in Visited({"SwitchStatement"}) :
      LET S == Ptr(p)
          atEnd == walk.post[Ref(Append(p, 2))].BreakContinueStack
          below == SubSeq(atEnd, 1, Len(atEnd) - 1)
          BC == walk.frames[S]
          after == walk.post[S].BreakContinueStack
      IN  /\ BC = atEnd[Len(atEnd)]
          /\ Len(after) = Len(walk.pre[S].BreakContinueStack)
          /\ after = IF below = <<>> THEN <<>>
                     ELSE AddedToFrame(below, Len(below), Zero64,
                                       BC.ContinueCount)

\* A continue reached 60 times in a switch in a switch in a while loop, the
\* outer switch left by a break taken 100 times: the frame the loop pops
\* has ContinueCount 60 and BreakCount 0, and the condition of the loop,
\* reached with 100 and with 0 at the end of the body, is entered 160 times.
C17_Witness ==
  /\ Counted
  /\ fn.kids[1].kids \in NestedSwitches
  /\ walk.frames[Ptr(<<1, 1, 2, 1, 2, 1, 1, 1>>)] =
       [BreakCount |-> Zero64, ContinueCount |-> ToU64(60)]
  /\ walk.frames[Ptr(<<1, 1, 2, 1>>)] =
       [BreakCount |-> ToU64(100), ContinueCount |-> ToU64(60)]
  /\ walk.frames[Ptr(<<1, 1>>)] =
       [BreakCount |-> Zero64, ContinueCount |-> ToU64(60)]
  /\ StmtCountMap[Ptr(<<1, 1, 1>>)] = ToU64(160)

\* What C18 says of the do loop at path p, where the condition count is the
\* count at the end of the body plus the continue count plus Parent.
DoLoopFlow(p, Parent) ==
  LET S == Ptr(p)
      _body == Append(p, 1)
      condition == Append(p, 2)
      BodyCount == getRegionCount(S)
      BC == walk.frames[S]
      CondCount == Add64(Add64(Parent, CountAfter(_body)), BC.ContinueCount)
  IN  /\ walk.wrote[<<S, Ref(_body)>>] = BodyCount
      /\ CountBefore(_body) = BodyCount
      /\ walk.wrote[<<S, Ref(condition)>>] = CondCount
      /\ StmtCountMap[Ref(condition)] = CondCount
      /\ CountBefore(condition) = CondCount
      /\ CountAfter(p) =
           Sub64(Add64(Add64(BC.BreakCount, CondCount), CountBefore(p)),
                 Add64(BodyCount, Parent))

\* C18 as stated: the condition of a do loop reached with ParentCount is
\* recorded with ParentCount + BackedgeCount + ContinueCount, and
\* BreakCount + CondCount - BodyCount flows out of the loop.
C18_AsStated ==
  Counted =>
    \A p \in Visited({"DoStatement"}) : DoLoopFlow(p, CountBefore(p))

\* C18 amended: the condition of a do loop is recorded, and entered, with
\* BackedgeCount + ContinueCount, without the count the loop is reached
\* with, and BreakCount + CondCount - (BodyCount - ParentCount) flows out of
\* the loop.
C18_DoLoopFlow ==
  Counted =>
    \A p \in Visited({"DoStatement"}) : DoLoopFlow(p, Zero64)

\* A do loop reached with 7 whose body, entered 10 times, continues 7 times
\* and breaks 3 times: the condition is entered 0 + 7 times, not 14 times,
\* and 3 + 7 - (10 - 7) flows out.
C18_Witness ==
  /\ Counted
  /\ fn.kids[1].kids =
       <<Loop("DoStatement",
              Block(<<If(Exp, Jump("ContinueStatement", <<>>),
                         Jump("BreakStatement", <<>>))>>))>>
  /\ RegionCounts = <<ToU64(7), ToU64(10), ToU64(7)>>
  /\ walk.frames[Ptr(<<1, 1>>)] =
       [BreakCount |-> ToU64(3), ContinueCount |-> ToU64(7)]
  /\ StmtCountMap[Ptr(<<1, 1, 2>>)] = ToU64(7)
  /\ CountAfter(<<1, 1>>) = ToU64(7)

(***************************************************************************)
(* Claims about the numeric range of the counts                            *)
(***************************************************************************)
\* The count a loop handler subtracts at the loop exit: the raw counter of
\* the loop, less the count the loop was reached with for a do loop.
LoopCountOf(p) ==
  IF NodeAt(fn, p).kind = "DoStatement"
  THEN Sub64(getRegionCount(Ptr(p)), CountBefore(p))
  ELSE getRegionCount(Ptr(p))

\* The condition count of the loop at p: the count stored on its condition,
\* or on its slot 1 when it has no condition node.
CondCountOf(p) ==
  LET S == Ptr(p)
      condition == IF NodeAt(fn, p).kind = "DoStatement"
                   THEN Ref(Append(p, 2)) ELSE ConditionOf(p)
  IN  walk.wrote[<<S, IF condition # NULL THEN condition
                      ELSE getCounterPtr(S, 1)>>]

\* C19: the count flowing out of a loop never wraps: when the count
\* subtracted exceeds BreakCount + CondCount, the count flowing out is 0,
\* for every loop kind.
C19_LoopExitIsClamped ==
  Counted =>
    \A p \in Visited(LoopKinds) :
      LET sum == Add64(walk.frames[Ptr(p)].BreakCount, CondCountOf(p))
      IN  Less64(sum, LoopCountOf(p)) => CountAfter(p) = Zero64

(***************************************************************************)
(* Claims about the agreement of the two passes                            *)
(***************************************************************************)
\* The keys the handler of ComputeRegionCounts for the node at path calls
\* PGO.getRegionCount with: the function body, the node itself, slot 1 of a
\* goto-case target, the catches of a try/catch.  The handlers of return,
\* throw, goto, break, continue and of plain statements read no counter.
CountersReadBy(path) ==
  LET n == NodeAt(fn, path)
      S == Ptr(path)
  IN  CASE n.kind = "FuncDeclaration" ->
             IF path = <<>> THEN {Ref(<<1>>)} ELSE {}
        [] n.kind \in OneCounterKinds \cup {"TryFinallyStatement"} -> {S}
        [] n.kind \in {"CaseStatement", "DefaultStatement"} ->
             IF n.gototarget THEN {S, getCounterPtr(S, 1)} ELSE {S}
        [] n.kind = "TryCatchStatement" ->
             {S} \cup {Ref(Append(path, i)) : i \in 2..Len(n.kids)}
        [] OTHER -> {}

\* C20: every key whose raw counter the counting pass reads has a counter
\* index in RegionCounterMap; so no counter is read for a try/finally with
\* an empty body or cleanup, nor for a node of a nested function.
C20_PassesAgreeOnCounters ==
  Counted =>
    \A S \in DOMAIN walk.post :
      CountersReadBy(S.node) \subseteq DOMAIN RegionCounterMap

====
